---- MODULE Spec2Model ----
(***************************************************************************)
(* Verification model of the competitor news export pipeline               *)
(* (export_competitors.py and the competitors package).                    *)
(*                                                                         *)
(* Specifications:                                                         *)
(*   Spec        the batch driver export_all_competitors (thread pool)     *)
(*   SpecSite    one run of process_competitor for one site                *)
(*   SpecSitemap the sitemap discovery functions                           *)
(*   SpecFeed    the feed discovery functions                              *)
(* Site names are written without diacritics (El Pais for El País).        *)
(***************************************************************************)
EXTENDS Integers, Sequences, FiniteSets, TLC

VARIABLES
    \* ---- batch driver (export_all_competitors) ----
    names,        \* the competitor_names argument, a sequence of names
    competitors,  \* the competitors list resolved from names
    pcDriver,     \* position of the driver
    nextSubmit,   \* index of the next competitor to submit to the pool
    workQueue,    \* submitted work items not yet picked by a pool thread
    running,      \* sites being processed by a pool thread right now
    futures,      \* site -> state of its future
    results,      \* the results list of the driver
    files,        \* output files present on disk (paths)
    runLog,       \* site -> outcome logged by process_competitor
    \* ---- one site run (process_competitor) ----
    site,         \* the name of the site of the run
    max_articles, \* CompetitorExporter.max_articles
    sitePc,       \* "start" before the run, "done" after it
    siteRun,      \* the run: inputs, records and return value
    \* ---- sitemap discovery ----
    smDoc,        \* the <url> elements of the fetched sitemap
    smNow,        \* the instant of the call, in hours (UTC)
    smTz,         \* the UTC offset of the local time zone of the process
    smDays,       \* max_days_old
    smFunc,       \* the discovery function that was called, or None
    smResult,     \* the returned URL list
    \* ---- feed discovery ----
    fdFeeds,      \* the configured feeds, each a sequence of feed entries
    fdNow,        \* the instant of the call, in hours (UTC)
    fdDays,       \* days_back
    fdFunc,       \* the feed discovery that was called, or None
    fdResult,     \* the returned entry list
    \* ---- the output file of one site on one day ----
    exKind,       \* "dedicated" (a BaseExporter subclass) or "default"
    exFile,       \* the text of the file, a sequence of characters
    exHist,       \* the article lists exported so far, oldest first
    \* ---- article records ----
    rcFunc,       \* the function that was called, or None
    rcArgs,       \* its arguments: the scraper class or site, URLs and pages
    rcOut,        \* the records it returned or handed to the exporter
    \* ---- text cleaning ----
    ctImpl,       \* the clean_text implementation under call
    ctInput,      \* the value clean_text is first called with
    ctCalls,      \* how many times clean_text was applied
    ctText,       \* the text returned by the last call
    \* ---- the output files of one day ----
    dayFiles,     \* the (site name, file path) pairs written so far
    \* ---- discovery on a sitemap index ----
    ixIndex,      \* the sub-sitemaps listed by the fetched sitemap index
    ixFunc,       \* the discovery function that was called, or None
    ixUrls,       \* the returned URL list
    ixFetches,    \* the sitemap documents fetched by the call, in order
    \* ---- the automation run (automation/run_automation.py) ----
    auEnv,        \* the environment of the run
    auPc,         \* position of main: [at, attempt]
    auEntry,      \* export_competitors of run_scraping: the imported entry point
    auCalls,      \* the calls of the entry point made so far
    auSuccess,    \* TRUE once run_scraping returned True
    auSteps,      \* the steps main executed after run_scraping, in order
    \* ---- discovery over sources that fail ----
    dfSources,    \* the configured feeds or sitemaps, with their failures
    dfFunc,       \* the discovery that was called, or None
    dfOut         \* how the call ended: raised, or returned a list

batchVars == <<names, competitors, pcDriver, nextSubmit, workQueue, running,
               futures, results, files, runLog>>
siteVars == <<site, max_articles, sitePc, siteRun>>
smVars == <<smDoc, smNow, smTz, smDays, smFunc, smResult>>
fdVars == <<fdFeeds, fdNow, fdDays, fdFunc, fdResult>>
exVars == <<exKind, exFile, exHist>>
rcVars == <<rcFunc, rcArgs, rcOut>>
ctVars == <<ctImpl, ctInput, ctCalls, ctText>>
pfVars == <<dayFiles>>
ixVars == <<ixIndex, ixFunc, ixUrls, ixFetches>>
auVars == <<auEnv, auPc, auEntry, auCalls, auSuccess, auSteps>>
dfVars == <<dfSources, dfFunc, dfOut>>
vars == <<batchVars, siteVars, smVars, fdVars, exVars, rcVars, ctVars, pfVars,
          ixVars, auVars, dfVars>>

None == "None"

(***************************************************************************)
(* Sequence helpers (Python list operations).                              *)
(***************************************************************************)
Min(a, b) == IF a <= b THEN a ELSE b

\* lst[:n]
Take(lst, n) == SubSeq(lst, 1, Min(Len(lst), n))

Range(lst) == {lst[i] : i \in 1..Len(lst)}

RECURSIVE Concat(_)
\* list.extend over a list of lists
Concat(lists) ==
    IF lists = <<>> THEN <<>> ELSE Head(lists) \o Concat(Tail(lists))

\* all sequences over S of length 0..n
SeqUpTo(S, n) == UNION {[1..k -> S] : k \in 0..n}

NoDuplicates(lst) == \A i, j \in 1..Len(lst) : lst[i] = lst[j] => i = j

(***************************************************************************)
(* Characters.  A string is a sequence of characters; an accented letter   *)
(* is one character, written with its accent mark after it.                *)
(***************************************************************************)
UpperLetters ==
    <<"A", "B", "C", "D", "E", "F", "G", "H", "I", "J", "K", "L", "M", "N", "O",
      "P", "Q", "R", "S", "T", "U", "V", "W", "X", "Y", "Z",
      "A'", "E'", "I'", "O'", "U'", "N~">>

LowerLetters ==
    <<"a", "b", "c", "d", "e", "f", "g", "h", "i", "j", "k", "l", "m", "n", "o",
      "p", "q", "r", "s", "t", "u", "v", "w", "x", "y", "z",
      "a'", "e'", "i'", "o'", "u'", "n~">>

Digits == {"0", "1", "2", "3", "4", "5", "6", "7", "8", "9"}

\* str.lower() on one character
LowerChar(ch) ==
    IF \E i \in 1..Len(UpperLetters) : UpperLetters[i] = ch
    THEN LowerLetters[CHOOSE i \in 1..Len(UpperLetters) : UpperLetters[i] = ch]
    ELSE ch

\* str.isalnum() on one character
IsAlnum(ch) == ch \in Range(UpperLetters) \cup Range(LowerLetters) \cup Digits

(***************************************************************************)
(* Bounds of the model.                                                    *)
(***************************************************************************)
\* URLs that discovery can return
URLs == {"a", "b"}
\* largest number of URLs the feeds or sitemaps of a site contribute in all
MaxLen == 2
\* largest number of feeds or sitemaps consulted for one site
MaxSources == 2
\* largest number of names passed to export_all_competitors
MaxSelected == 4
\* number of registered sites the batch driver is asked for
MaxBatchSites == 5
\* largest number of <url> elements of a sitemap document
MaxSitemapLen == 2
\* values of CompetitorExporter.max_articles
MaxArticlesValues == {1, 3}

(***************************************************************************)
(* Site registry (competitors/__init__.py and competitors/config/*.py).    *)
(* scraper: the configured scraper_function, None without the keys         *)
(*   scraper_module and scraper_function; scraperLoadable: the module is   *)
(*   part of the package.  exporter: get_competitor_name() of the exporter *)
(*   class, None when exporter_module/exporter_class are not both set or   *)
(*   the module is missing.  maxCfg: the 'max_articles' key, 0 if absent.  *)
(* Nine of the fourteen registered sites are kept, in registry order: one  *)
(* or more for each combination of scraper, exporter and discovery keys.   *)
(***************************************************************************)
get_all_competitors ==
    << [name |-> "El Mundo", scraper |-> None, scraperLoadable |-> FALSE,
        exporter |-> "el_mundo", use_rss |-> FALSE, rss_feeds |-> FALSE,
        sitemap |-> TRUE, maxCfg |-> 0],
       [name |-> "El Confidencial", scraper |-> "create_el_confidencial_scraper",
        scraperLoadable |-> TRUE, exporter |-> "el_confidencial",
        use_rss |-> TRUE, rss_feeds |-> TRUE, sitemap |-> FALSE, maxCfg |-> 100],
       [name |-> "Infobae", scraper |-> "infobae.get_articles",
        scraperLoadable |-> TRUE, exporter |-> "infobae",
        use_rss |-> TRUE, rss_feeds |-> TRUE, sitemap |-> TRUE, maxCfg |-> 0],
       [name |-> "Publico", scraper |-> "create_publico_scraper",
        scraperLoadable |-> TRUE, exporter |-> "publico",
        use_rss |-> FALSE, rss_feeds |-> FALSE, sitemap |-> TRUE, maxCfg |-> 0],
       [name |-> "El Pais", scraper |-> "get_el_pais_articles",
        scraperLoadable |-> TRUE, exporter |-> "el_pais",
        use_rss |-> TRUE, rss_feeds |-> TRUE, sitemap |-> FALSE, maxCfg |-> 0],
       [name |-> "eldiario.es", scraper |-> "eldiario.get_articles",
        scraperLoadable |-> FALSE, exporter |-> "eldiario",
        use_rss |-> TRUE, rss_feeds |-> TRUE, sitemap |-> TRUE, maxCfg |-> 0],
       [name |-> "ABC", scraper |-> None, scraperLoadable |-> FALSE,
        exporter |-> "abc", use_rss |-> TRUE, rss_feeds |-> TRUE,
        sitemap |-> TRUE, maxCfg |-> 0],
       [name |-> "El Espanol", scraper |-> "create_el_espanol_scraper",
        scraperLoadable |-> TRUE, exporter |-> "el_espanol",
        use_rss |-> FALSE, rss_feeds |-> FALSE, sitemap |-> TRUE, maxCfg |-> 50],
       [name |-> "El Periodico", scraper |-> None, scraperLoadable |-> FALSE,
        exporter |-> None, use_rss |-> FALSE, rss_feeds |-> FALSE,
        sitemap |-> TRUE, maxCfg |-> 0] >>

SiteNames == {get_all_competitors[i].name : i \in 1..Len(get_all_competitors)}

\* str.lower() on the site names
Lower(n) ==
    CASE n = "El Mundo" -> "el mundo"
      [] n = "El Confidencial" -> "el confidencial"
      [] n = "Infobae" -> "infobae"
      [] n = "Publico" -> "publico"
      [] n = "El Pais" -> "el pais"
      [] n = "eldiario.es" -> "eldiario.es"
      [] n = "ABC" -> "abc"
      [] n = "El Espanol" -> "el espanol"
      [] n = "El Periodico" -> "el periodico"
      [] OTHER -> n

\* the first registered configuration whose lower-cased name matches; the
\* optional configuration is a sequence of length 0 (None) or 1
get_competitor_by_name(n) ==
    LET hits == {i \in 1..Len(get_all_competitors) :
                    Lower(get_all_competitors[i].name) = Lower(n)}
    IN  IF hits = {} THEN <<>>
        ELSE <<get_all_competitors[CHOOSE i \in hits : \A j \in hits : i <= j]>>

(***************************************************************************)
(* Article records.  A record carries its URL and its section; the section *)
(* of the stub built when extraction fails is "error".                     *)
(***************************************************************************)
\* the record get_article_data returns from its except branch
StubRecord(u) == [url |-> u, section |-> "error"]

\* the record get_article_data returns when download and parsing succeed
ExtractedRecord(u) == [url |-> u, section |-> "general"]

\* get_article_data of the BaseScraper subclasses (El Espanol, Publico,
\* El Confidencial): never raises, a failure yields the stub
get_article_data(u, failing) ==
    IF u \in failing THEN StubRecord(u) ELSE ExtractedRecord(u)

\* InfobaeScraper.get_article_data: a failure yields None.  The optional
\* record is a sequence of length 0 (None) or 1.
InfobaeGetArticleData(u, failing) ==
    IF u \in failing THEN <<>> ELSE <<ExtractedRecord(u)>>

\* the record the default processing builds from the URL alone (no download)
DefaultArticle(u) == [url |-> u, section |-> "from_url"]

\* the loop "if article_data: articles.append(article_data)" over optional
\* records
DropNone(lst) == Concat(lst)

RECURSIVE AddCapped(_, _, _)
\* urls.add(u) for each u of lst, leaving the loop once len(urls) >= cap
AddCapped(set, lst, cap) ==
    IF lst = <<>> \/ Cardinality(set) >= cap THEN set
    ELSE AddCapped(set \cup {Head(lst)}, Tail(lst), cap)

\* the lists a Python set of these elements can be turned into by list()
Orderings(S) == {f \in [1..Cardinality(S) -> S] : Range(f) = S}

FirstSource(lists) == IF lists = <<>> THEN <<>> ELSE lists[1]

RECURSIVE UnionNew(_, _)
\* fetch_rss_entries: for each feed, the entries whose url was not seen in an
\* EARLIER feed are appended (the seen set is updated after each feed)
UnionNew(acc, feedLists) ==
    IF feedLists = <<>> THEN acc
    ELSE UnionNew(acc \o SelectSeq(Head(feedLists),
                                   LAMBDA e : \A i \in 1..Len(acc) : acc[i].url # e.url),
                  Tail(feedLists))

(***************************************************************************)
(* Dedicated scraper functions, called as scraper_func(competitor,         *)
(* days_back).  senv is what the network and the file system give:         *)
(*   raises   the scraper object cannot be constructed                     *)
(*   lists    the recent URLs found in each configured feed or sitemap     *)
(*   home     the article links of the home page (Infobae)                 *)
(*   failing  the URLs whose download or parsing fails                     *)
(* Each returns [raised, discovered, processed, articles].                 *)
(***************************************************************************)
InfobaeDefaultMaxArticles == 10
ElEspanolDefaultMaxArticles == 10
ElConfidencialDefaultMaxArticles == 50

ScraperRaised ==
    [raised |-> TRUE, discovered |-> <<>>, processed |-> <<>>, articles |-> <<>>]

CfgMax(c, default) == IF c.maxCfg = 0 THEN default ELSE c.maxCfg

\* InfobaeScraper._get_recent_article_urls before the final list(urls): the
\* loc of every sitemap, then the home-page links when fewer than max_urls
InfobaeRecentUrlSet(senv, max_urls) ==
    LET fromSitemaps == AddCapped({}, Concat(senv.lists), max_urls * 2)
    IN  IF Cardinality(fromSitemaps) < max_urls
        THEN AddCapped(fromSitemaps, senv.home, max_urls * 2)
        ELSE fromSitemaps

\* infobae_scraper.get_articles: max_articles keeps its default, the URL set
\* is listed in an arbitrary order, failed URLs are dropped
InfobaeGetArticles(c, senv, order) ==
    IF senv.raises THEN ScraperRaised
    ELSE LET max == InfobaeDefaultMaxArticles
             urlSet == InfobaeRecentUrlSet(senv, max)
             listed == IF order \in Orderings(urlSet) THEN order
                       ELSE CHOOSE o \in Orderings(urlSet) : TRUE
             urls == Take(Take(listed, max), max)
         IN  [raised |-> FALSE, discovered |-> Concat(senv.lists) \o senv.home,
              processed |-> urls,
              articles |-> DropNone([i \in 1..Len(urls) |->
                                      InfobaeGetArticleData(urls[i], senv.failing)])]

\* create_el_espanol_scraper: every exception is turned into []
create_el_espanol_scraper(c, senv) ==
    IF senv.raises \/ ~c.sitemap
    THEN [raised |-> FALSE, discovered |-> <<>>, processed |-> <<>>, articles |-> <<>>]
    ELSE LET found == FirstSource(senv.lists)
             urls == Take(found, CfgMax(c, ElEspanolDefaultMaxArticles))
         IN  [raised |-> FALSE, discovered |-> found, processed |-> urls,
              articles |-> [i \in 1..Len(urls) |-> get_article_data(urls[i], senv.failing)]]

\* create_publico_scraper: exceptions are re-raised, no limit on the URLs
create_publico_scraper(c, senv) ==
    IF senv.raises THEN ScraperRaised
    ELSE LET urls == FirstSource(senv.lists)
         IN  [raised |-> FALSE, discovered |-> urls, processed |-> urls,
              articles |-> [i \in 1..Len(urls) |-> get_article_data(urls[i], senv.failing)]]

\* create_el_confidencial_scraper: exceptions are re-raised, the URLs of all
\* feeds are concatenated and limited to the configured max_articles
create_el_confidencial_scraper(c, senv) ==
    IF senv.raises THEN ScraperRaised
    ELSE LET found == IF c.use_rss /\ c.rss_feeds THEN Concat(senv.lists) ELSE <<>>
             urls == Take(found, CfgMax(c, ElConfidencialDefaultMaxArticles))
         IN  [raised |-> FALSE, discovered |-> found, processed |-> urls,
              articles |-> [i \in 1..Len(urls) |-> get_article_data(urls[i], senv.failing)]]

\* get_el_pais_articles: the feed entries themselves are the articles
get_el_pais_articles(c, senv) ==
    LET perFeed == [k \in 1..Len(senv.lists) |->
                      [i \in 1..Len(senv.lists[k]) |-> ExtractedRecord(senv.lists[k][i])]]
        entries == UnionNew(<<>>, perFeed)
    IN  [raised |-> FALSE, discovered |-> Concat(senv.lists),
         processed |-> [i \in 1..Len(entries) |-> entries[i].url],
         articles |-> entries]

scraper_func(c, senv, order) ==
    CASE c.scraper = "infobae.get_articles" -> InfobaeGetArticles(c, senv, order)
      [] c.scraper = "create_el_espanol_scraper" -> create_el_espanol_scraper(c, senv)
      [] c.scraper = "create_publico_scraper" -> create_publico_scraper(c, senv)
      [] c.scraper = "create_el_confidencial_scraper" -> create_el_confidencial_scraper(c, senv)
      [] c.scraper = "get_el_pais_articles" -> get_el_pais_articles(c, senv)
      [] OTHER -> ScraperRaised

(***************************************************************************)
(* process_competitor.                                                     *)
(***************************************************************************)
\* "".join(c if c.isalnum() else "_" for c in competitor_name.lower())
SafeName(n) ==
    CASE n = "El Mundo" -> "el_mundo"
      [] n = "El Confidencial" -> "el_confidencial"
      [] n = "Infobae" -> "infobae"
      [] n = "Publico" -> "publico"
      [] n = "El Pais" -> "el_pais"
      [] n = "eldiario.es" -> "eldiario_es"
      [] n = "ABC" -> "abc"
      [] n = "El Espanol" -> "el_espanol"
      [] n = "El Periodico" -> "el_periodico"
      [] OTHER -> n

\* the exporter instance of the site, None when there is no loadable class
GetExporterForCompetitor(c) == c.exporter

\* the return value None of process_competitor (no file)
NoFile == <<>>

\* the file of the site for the current day: <<directory under
\* output/competitors, file name without "_articles_<date>.csv">>
OutputPath(c) ==
    IF GetExporterForCompetitor(c) # None
    THEN <<GetExporterForCompetitor(c), SafeName(c.name)>>
    ELSE <<SafeName(c.name), SafeName(c.name)>>

\* an export step that returns the path although the exporter raised
ExportArticlesIgnoringFailure(c, articles, exportFails) ==
    IF articles = <<>>
    THEN [result |-> NoFile, log |-> "no_articles", wrote |-> FALSE]
    ELSE IF exportFails
    THEN [result |-> OutputPath(c), log |-> "export_error", wrote |-> FALSE]
    ELSE [result |-> OutputPath(c), log |-> "exported", wrote |-> TRUE]

\* the export step of process_competitor: the exporter returns the path, or
\* raises, and the exception is logged and turned into None
ExportArticles(c, articles, exportFails) ==
    IF articles = <<>>
    THEN [result |-> NoFile, log |-> "no_articles", wrote |-> FALSE]
    ELSE IF exportFails
    THEN [result |-> NoFile, log |-> "export_error", wrote |-> FALSE]
    ELSE [result |-> OutputPath(c), log |-> "exported", wrote |-> TRUE]

\* the discovery method of the default processing for this configuration
DefaultMethod(c) ==
    IF c.use_rss /\ c.rss_feeds THEN "rss"
    ELSE IF c.sitemap THEN "sitemap"
    ELSE None

\* default processing: prior is what the dedicated scraper left (attempted
\* methods and their yields); denv.lists are the URLs returned for each feed
\* (get_rss_entries) or each sitemap (get_recent_article_urls);
\* denv.unexpected is an exception raised outside the inner handlers
DefaultProcessing(c, maxArt, prior, denv, exportFails) ==
    LET method == DefaultMethod(c)
        article_urls == IF method = None THEN <<>> ELSE Concat(denv.lists)
        selected == Take(article_urls, maxArt)
        articles == [i \in 1..Len(selected) |-> DefaultArticle(selected[i])]
        ex == ExportArticles(c, articles, exportFails)
        attempted == IF method = None THEN prior.attempted
                     ELSE Append(prior.attempted, method)
        yields == IF method = None THEN prior.yields
                  ELSE Append(prior.yields, Len(article_urls))
    IN  IF denv.unexpected
        THEN [site |-> c.name, attempted |-> attempted, yields |-> yields,
              discovered |-> <<>>, processed |-> <<>>, failing |-> {},
              articles |-> <<>>, result |-> NoFile, log |-> "error", wrote |-> FALSE]
        ELSE [site |-> c.name, attempted |-> attempted, yields |-> yields,
              discovered |-> article_urls, processed |-> selected, failing |-> {},
              articles |-> articles, result |-> ex.result, log |-> ex.log,
              wrote |-> ex.wrote]

\* the dedicated branch when the scraper function returned a list
ScraperBranch(c, sc, failing, exportFails) ==
    LET ex == ExportArticles(c, sc.articles, exportFails)
    IN  [site |-> c.name, attempted |-> <<"scraper">>,
         yields |-> <<Len(sc.discovered)>>, discovered |-> sc.discovered,
         processed |-> sc.processed, failing |-> failing,
         articles |-> sc.articles, result |-> ex.result, log |-> ex.log,
         wrote |-> ex.wrote]

\* process_competitor for one choice of what its callees return
process_competitor(c, maxArt, senv, order, denv, exportFails) ==
    IF c.scraper # None
    THEN IF ~c.scraperLoadable
         THEN \* ImportError: falling back to default processing
              DefaultProcessing(c, maxArt,
                  [attempted |-> <<"scraper">>, yields |-> <<0>>], denv, exportFails)
         ELSE LET sc == scraper_func(c, senv, order)
              IN  IF sc.raised
                  THEN DefaultProcessing(c, maxArt,
                           [attempted |-> <<"scraper">>, yields |-> <<0>>],
                           denv, exportFails)
                  ELSE ScraperBranch(c, sc, senv.failing, exportFails)
    ELSE DefaultProcessing(c, maxArt,
             [attempted |-> <<>>, yields |-> <<>>], denv, exportFails)

\* the inputs the runs are enumerated over
SourceLists ==
    {ls \in SeqUpTo(SeqUpTo(URLs, MaxLen), MaxSources) : Len(Concat(ls)) <= MaxLen}
ScraperEnvs ==
    [raises : BOOLEAN, lists : SourceLists, home : SeqUpTo(URLs, 1),
     failing : SUBSET URLs]
DefaultEnvs == [lists : SourceLists, unexpected : BOOLEAN]
NoScraperEnv == [raises |-> TRUE, lists |-> <<>>, home |-> <<>>, failing |-> {}]
NoDefaultEnv == [lists |-> <<>>, unexpected |-> FALSE]

\* the orders in which Infobae may list its URL set
InfobaeOrders(c, senv) ==
    IF c.scraper = "infobae.get_articles" /\ ~senv.raises
    THEN Orderings(InfobaeRecentUrlSet(senv, InfobaeDefaultMaxArticles))
    ELSE {<<>>}

\* every run process_competitor can make for configuration c
RunsOf(c, maxArt) ==
    LET viaDefault ==
            {process_competitor(c, maxArt, NoScraperEnv, <<>>, denv, ef) :
                denv \in DefaultEnvs, ef \in BOOLEAN}
        viaScraper ==
            UNION {{process_competitor(c, maxArt, senv, o, NoDefaultEnv, ef) :
                        o \in InfobaeOrders(c, senv), ef \in BOOLEAN} :
                   senv \in {e \in ScraperEnvs : ~e.raises}}
    IN  IF c.scraper # None /\ c.scraperLoadable
        THEN viaScraper \cup
             (IF scraper_func(c, NoScraperEnv, <<>>).raised THEN viaDefault ELSE
                {process_competitor(c, maxArt, NoScraperEnv, <<>>, NoDefaultEnv, ef) :
                    ef \in BOOLEAN})
        ELSE viaDefault

AllRuns ==
    [i \in 1..Len(get_all_competitors), m \in MaxArticlesValues |->
        RunsOf(get_all_competitors[i], m)]

\* what the batch driver can observe of a run: return value, log, file
OutcomesOf ==
    [i \in 1..Len(get_all_competitors), m \in MaxArticlesValues |->
        {[result |-> r.result, log |-> r.log, wrote |-> r.wrote] : r \in AllRuns[i, m]}]

SiteIndex(n) == CHOOSE i \in 1..Len(get_all_competitors) : get_all_competitors[i].name = n

(***************************************************************************)
(* Time.  Instants and wall-clock readings are whole hours since an epoch. *)
(* A timestamp text is [kind, wall, offset]:                               *)
(*   "none"   no timestamp element (or empty text)                         *)
(*   "bad"    a text that no date format matches                           *)
(*   "aware"  YYYY-MM-DDTHH:MM:SS with a UTC offset (Z for offset 0)       *)
(*   "naive"  YYYY-MM-DDTHH:MM:SS without offset                           *)
(*   "date"   YYYY-MM-DD                                                   *)
(* wall is the date and time as written, offset the written UTC offset.    *)
(***************************************************************************)
HoursPerDay == 24

NoTs == [kind |-> "none", wall |-> 0, offset |-> 0]
BadTs == [kind |-> "bad", wall |-> 0, offset |-> 0]

\* the instant a timestamp text denotes (texts without offset read as UTC)
Instant(ts) == IF ts.kind = "aware" THEN ts.wall - ts.offset ELSE ts.wall

\* datetime.now().replace(hour=0, minute=0, second=0, microsecond=0), for the
\* UTC offset tz of the local time zone of the process
LocalMidnight(now, tz) == ((now + tz) \div HoursPerDay) * HoursPerDay

(***************************************************************************)
(* Sitemap discovery.  A sitemap document is the sequence of its <url>     *)
(* elements [loc, ts]; loc is NoLoc when the element has no loc text, ts   *)
(* is the text of news:publication_date / lastmod.                         *)
(***************************************************************************)
NoLoc == ""

\* urls[:200] in CompetitorExporter.get_recent_article_urls
MaxSitemapUrls == 200

\* the date formats CompetitorExporter.get_recent_article_urls parses: a text
\* with "T" goes to fromisoformat only if it holds "+" or "Z", otherwise to
\* strptime without offset, which rejects a text with a negative offset
GenericParses(ts) ==
    \/ ts.kind = "aware" /\ ts.offset >= 0
    \/ ts.kind = "naive"
    \/ ts.kind = "date"

\* the test that skips an old entry, with the cutoff at "now" instead of at
\* the start of the current day
GenericIsOldFromNow(ts, now, tz, days) ==
    ts.wall < (now + tz) - days * HoursPerDay

\* lastmod_date.replace(tzinfo=None) < today - timedelta(days=max_days_old)
GenericIsOld(ts, now, tz, days) ==
    ts.wall < LocalMidnight(now, tz) - days * HoursPerDay

\* the entry handling where a date that cannot be parsed drops the entry
GenericKeepsDroppingUndated(e, now, tz, days) ==
    /\ e.loc # NoLoc
    /\ GenericParses(e.ts)
    /\ ~GenericIsOld(e.ts, now, tz, days)

\* one iteration of the loop over the <url> elements: TRUE when the URL is
\* appended to recent_urls
GenericKeeps(e, now, tz, days) ==
    /\ e.loc # NoLoc
    /\ \/ e.ts.kind = "none"
       \/ ~GenericParses(e.ts)
       \/ ~GenericIsOld(e.ts, now, tz, days)

\* CompetitorExporter.get_recent_article_urls on a fetched <urlset>
GetRecentArticleUrls(doc, now, tz, days) ==
    LET kept == SelectSeq(Take(doc, MaxSitemapUrls),
                          LAMBDA e : GenericKeeps(e, now, tz, days))
    IN  [i \in 1..Len(kept) |-> kept[i].loc]

\* ElEspanolScraper.get_recent_article_urls: fromisoformat parses every
\* well-formed text; a text without offset gives a naive datetime and the
\* subtraction from the aware "now" raises, which skips the entry
ElEspanolKeeps(e, now, days) ==
    /\ e.loc # NoLoc
    /\ e.ts.kind = "aware"
    /\ now - Instant(e.ts) <= days * HoursPerDay

ElEspanolGetRecentArticleUrls(doc, now, days) ==
    LET kept == SelectSeq(doc, LAMBDA e : ElEspanolKeeps(e, now, days))
    IN  [i \in 1..Len(kept) |-> kept[i].loc]

\* PublicoScraper.get_recent_article_urls: a naive datetime is read as UTC
PublicoKeeps(e, now, days) ==
    /\ e.loc # NoLoc
    /\ e.ts.kind \in {"aware", "naive", "date"}
    /\ now - Instant(e.ts) <= days * HoursPerDay

PublicoGetRecentArticleUrls(doc, now, days) ==
    LET kept == SelectSeq(doc, LAMBDA e : PublicoKeeps(e, now, days))
    IN  [i \in 1..Len(kept) |-> kept[i].loc]

(***************************************************************************)
(* Values of the variables a specification does not use.                   *)
(***************************************************************************)
NoRun ==
    [site |-> None, attempted |-> <<>>, yields |-> <<>>, discovered |-> <<>>,
     processed |-> <<>>, failing |-> {}, articles |-> <<>>, result |-> NoFile,
     log |-> None, wrote |-> FALSE]

BatchIdle ==
    /\ names = <<>> /\ competitors = <<>> /\ pcDriver = "idle"
    /\ nextSubmit = 1 /\ workQueue = <<>> /\ running = {}
    /\ futures = <<>> /\ results = <<>> /\ files = {} /\ runLog = <<>>

SiteIdle == site = None /\ sitePc = "idle" /\ siteRun = NoRun

SitemapIdle ==
    smDoc = <<>> /\ smNow = 0 /\ smTz = 0 /\ smDays = 0 /\ smFunc = None /\ smResult = <<>>

FeedIdle ==
    fdFeeds = <<>> /\ fdNow = 0 /\ fdDays = 0 /\ fdFunc = None /\ fdResult = <<>>

ExportIdle == exKind = None /\ exFile = <<>> /\ exHist = <<>>

RecordsIdle == rcFunc = None /\ rcArgs = <<>> /\ rcOut = <<>>

TextIdle == ctImpl = None /\ ctInput = <<>> /\ ctCalls = 0 /\ ctText = <<>>

PathsIdle == dayFiles = {}

IndexIdle == ixIndex = <<>> /\ ixFunc = None /\ ixUrls = <<>> /\ ixFetches = <<>>

AutomationIdle ==
    /\ auEnv = None /\ auPc = [at |-> "idle", attempt |-> 0] /\ auEntry = None
    /\ auCalls = <<>> /\ auSuccess = FALSE /\ auSteps = <<>>

FailuresIdle == dfSources = <<>> /\ dfFunc = None /\ dfOut = None

(***************************************************************************)
(* SpecSite: one run of process_competitor.                                *)
(***************************************************************************)
InitSite ==
    /\ site \in SiteNames
    /\ max_articles \in MaxArticlesValues
    /\ sitePc = "start"
    /\ siteRun = NoRun
    /\ BatchIdle /\ SitemapIdle /\ FeedIdle /\ ExportIdle /\ RecordsIdle /\ TextIdle /\ PathsIdle
    /\ IndexIdle /\ AutomationIdle /\ FailuresIdle

\* process_competitor(competitor) runs to its return
ProcessCompetitorRun ==
    /\ sitePc = "start"
    /\ \E r \in AllRuns[SiteIndex(site), max_articles] : siteRun' = r
    /\ sitePc' = "done"
    /\ UNCHANGED <<site, max_articles, batchVars, smVars, fdVars, exVars, rcVars, ctVars, pfVars,
                 ixVars, auVars, dfVars>>

NextSite == ProcessCompetitorRun

SpecSite == InitSite /\ [][NextSite]_vars

(***************************************************************************)
(* SpecDescriptor: process_competitor is handed a descriptor as            *)
(* export_all_competitors submits it, without any check of its keys        *)
(* between the selection and the submission.  The descriptors are the      *)
(* combinations of the discovery keys, with no scraper keys or with a      *)
(* scraper module that cannot be imported.                                 *)
(***************************************************************************)
DescriptorSamples ==
    [name : {"Site"}, scraper : {None, "missing_module.get_articles"},
     scraperLoadable : {FALSE}, exporter : {None}, use_rss : BOOLEAN,
     rss_feeds : BOOLEAN, sitemap : BOOLEAN, maxCfg : {0}]

InitDescriptor ==
    /\ site \in DescriptorSamples
    /\ max_articles \in MaxArticlesValues
    /\ sitePc = "start"
    /\ siteRun = NoRun
    /\ BatchIdle /\ SitemapIdle /\ FeedIdle /\ ExportIdle /\ RecordsIdle /\ TextIdle /\ PathsIdle
    /\ IndexIdle /\ AutomationIdle /\ FailuresIdle

\* executor.submit(self.process_competitor, comp): the call runs to its return
ProcessDescriptor ==
    /\ sitePc = "start"
    /\ \E r \in RunsOf(site, max_articles) : siteRun' = r
    /\ sitePc' = "done"
    /\ UNCHANGED <<site, max_articles, batchVars, smVars, fdVars, exVars, rcVars, ctVars, pfVars,
                 ixVars, auVars, dfVars>>

NextDescriptor == ProcessDescriptor

SpecDescriptor == InitDescriptor /\ [][NextDescriptor]_vars

\* no scraper module that can be imported, no enabled feeds, no sitemap
LacksEverySource(c) ==
    /\ c.scraper = None \/ ~c.scraperLoadable
    /\ DefaultMethod(c) = None

\* C25: a descriptor without any usable discovery source is rejected before
\* it is processed, and its outcome is not the "no articles" outcome of a
\* run that found nothing.
C25_SourcelessDescriptorIsRejected ==
    LacksEverySource(site) =>
        /\ sitePc = "start"
        /\ siteRun.log # "no_articles"

(***************************************************************************)
(* Spec: export_all_competitors.  The pool is                              *)
(* ThreadPoolExecutor(max_workers=3): submitted items wait in a FIFO queue *)
(* and a pool thread takes the oldest one when fewer than max_workers      *)
(* threads are busy.                                                       *)
(***************************************************************************)
max_workers == 3

UnknownName == "Unknown"

RECURSIVE ResolveNames(_)
\* the loop over competitor_names: names that are not registered are skipped
ResolveNames(ns) ==
    IF ns = <<>> THEN <<>>
    ELSE get_competitor_by_name(Head(ns)) \o ResolveNames(Tail(ns))

\* the competitors list built at the start of export_all_competitors
SelectCompetitors(ns) ==
    IF ns # <<>> THEN ResolveNames(ns) ELSE get_all_competitors

\* the names the model passes to export_all_competitors: the first
\* MaxBatchSites registered names and one name that is not registered
BatchNames ==
    {get_all_competitors[i].name : i \in 1..Min(MaxBatchSites, Len(get_all_competitors))}
        \cup {UnknownName}

\* names arguments of the model: 1..MaxSelected distinct names
NameLists ==
    {ns \in SeqUpTo(BatchNames, MaxSelected) :
        /\ ns # <<>>
        /\ \A i, j \in 1..Len(ns) :
              i < j => \/ ns[j] = UnknownName /\ ns[i] # UnknownName
                       \/ /\ ns[i] # UnknownName /\ ns[j] # UnknownName
                          /\ SiteIndex(ns[i]) < SiteIndex(ns[j])}

NoFuture == [state |-> "none", result |-> NoFile]

Init ==
    /\ names \in NameLists
    /\ max_articles \in MaxArticlesValues
    /\ competitors = <<>>
    /\ pcDriver = "select"
    /\ nextSubmit = 1
    /\ workQueue = <<>>
    /\ running = {}
    /\ futures = [n \in SiteNames |-> NoFuture]
    /\ results = <<>>
    /\ files = {}
    /\ runLog = [n \in SiteNames |-> None]
    /\ SiteIdle /\ SitemapIdle /\ FeedIdle /\ ExportIdle /\ RecordsIdle /\ TextIdle /\ PathsIdle
    /\ IndexIdle /\ AutomationIdle /\ FailuresIdle

\* lines 1033-1046: resolve the names; return [] when nothing is left
Select ==
    /\ pcDriver = "select"
    /\ competitors' = SelectCompetitors(names)
    /\ pcDriver' = IF competitors' = <<>> THEN "done" ELSE "submit"
    /\ UNCHANGED <<names, nextSubmit, workQueue, running, futures, results,
                   files, runLog, siteVars, smVars, fdVars, exVars, rcVars, ctVars, pfVars,
                 ixVars, auVars, dfVars>>

\* executor.submit(self.process_competitor, comp) for the next competitor
Submit ==
    /\ pcDriver = "submit"
    /\ LET c == competitors[nextSubmit]
       IN  /\ workQueue' = Append(workQueue, c.name)
           /\ futures' = [futures EXCEPT ![c.name] = [state |-> "pending", result |-> NoFile]]
    /\ nextSubmit' = nextSubmit + 1
    /\ pcDriver' = IF nextSubmit = Len(competitors) THEN "collect" ELSE "submit"
    /\ UNCHANGED <<names, competitors, running, results, files, runLog,
                   siteVars, smVars, fdVars, exVars, rcVars, ctVars, pfVars,
                 ixVars, auVars, dfVars>>

\* a pool without a limit on its threads
PoolUnbounded == TRUE

\* a pool thread is free to take a work item
PoolHasFreeThread == Cardinality(running) < max_workers

\* a pool thread takes the oldest queued item and starts process_competitor
WorkerStart ==
    /\ workQueue # <<>>
    /\ PoolHasFreeThread
    /\ running' = running \cup {Head(workQueue)}
    /\ workQueue' = Tail(workQueue)
    /\ futures' = [futures EXCEPT ![Head(workQueue)] = [state |-> "running", result |-> NoFile]]
    /\ UNCHANGED <<names, competitors, pcDriver, nextSubmit, results, files,
                   runLog, siteVars, smVars, fdVars, exVars, rcVars, ctVars, pfVars,
                 ixVars, auVars, dfVars>>

\* process_competitor returns in a pool thread: the file (if any) is on disk
\* and the future holds the return value
WorkerFinish(n) ==
    /\ n \in running
    /\ \E r \in OutcomesOf[SiteIndex(n), max_articles] :
          /\ futures' = [futures EXCEPT ![n] = [state |-> "finished", result |-> r.result]]
          /\ files' = IF r.wrote THEN files \cup {OutputPath(get_all_competitors[SiteIndex(n)])}
                      ELSE files
          /\ runLog' = [runLog EXCEPT ![n] = r.log]
    /\ running' = running \ {n}
    /\ UNCHANGED <<names, competitors, pcDriver, nextSubmit, workQueue, results,
                   siteVars, smVars, fdVars, exVars, rcVars, ctVars, pfVars,
                 ixVars, auVars, dfVars>>

\* the loop body without the test "if result:"
CollectResultUnchecked(res, n, result) == Append(res, <<n, result>>)

\* the body of the as_completed loop for one future: "if result:" appends
CollectResult(res, n, result) ==
    IF result # NoFile THEN Append(res, <<n, result>>) ELSE res

\* as_completed yields a finished future
Collect(n) ==
    /\ pcDriver = "collect"
    /\ futures[n].state = "finished"
    /\ results' = CollectResult(results, n, futures[n].result)
    /\ futures' = [futures EXCEPT ![n].state = "collected"]
    /\ UNCHANGED <<names, competitors, pcDriver, nextSubmit, workQueue, running,
                   files, runLog, siteVars, smVars, fdVars, exVars, rcVars, ctVars, pfVars,
                 ixVars, auVars, dfVars>>

\* every future was yielded: the pool is shut down and results returned
Return ==
    /\ pcDriver = "collect"
    /\ \A i \in 1..Len(competitors) : futures[competitors[i].name].state = "collected"
    /\ pcDriver' = "done"
    /\ UNCHANGED <<names, competitors, nextSubmit, workQueue, running, futures,
                   results, files, runLog, siteVars, smVars, fdVars, exVars, rcVars, ctVars, pfVars,
                 ixVars, auVars, dfVars>>

Next ==
    \/ Select
    \/ Submit
    \/ WorkerStart
    \/ \E n \in SiteNames : WorkerFinish(n)
    \/ \E n \in SiteNames : Collect(n)
    \/ Return

Spec == Init /\ [][Next]_vars

(***************************************************************************)
(* Properties of the batch driver (Spec).                                  *)
(***************************************************************************)
SelectedSites == {competitors[i].name : i \in 1..Len(competitors)}

\* the (site name, file path) pairs of the selected sites whose file was written
ProducedPairs ==
    {<<n, OutputPath(get_all_competitors[SiteIndex(n)])>> :
        n \in {m \in SelectedSites : OutputPath(get_all_competitors[SiteIndex(m)]) \in files}}

\* C1: whatever subset of the selected sites fails (exception, no articles,
\* export error), the driver returns, and the returned list holds exactly the
\* (site name, file path) pairs of the sites whose run wrote a file, once
\* each; at every moment the list holds only such pairs.
C1_BatchReturnsExactlyTheSuccesses ==
    /\ Range(results) \subseteq ProducedPairs
    /\ NoDuplicates(results)
    /\ pcDriver = "done" =>
          /\ Range(results) = ProducedPairs
          /\ \A n \in SelectedSites : futures[n].state = "collected"

\* a finished batch with one site per kind of failure and one success
C1_Witness ==
    /\ pcDriver = "done"
    /\ \E a, b, c, d \in SelectedSites :
          /\ runLog[a] = "error"
          /\ runLog[b] = "no_articles"
          /\ runLog[c] = "export_error"
          /\ runLog[d] = "exported"
          /\ results = <<<<d, OutputPath(get_all_competitors[SiteIndex(d)])>>>>

\* C2: at most 3 sites are being processed at the same time.
C2_AtMostThreeSitesRunning == Cardinality(running) <= 3

\* three sites are being processed while a fourth one waits in the queue
C2_Witness == Cardinality(running) = 3 /\ workQueue # <<>>

(***************************************************************************)
(* Properties of one site run (SpecSite).                                  *)
(***************************************************************************)
\* C3: every URL selected for processing yields exactly one record, a stub
\* with section "error" when its extraction fails: N URLs give N records.
C3_OneRecordPerSelectedUrl ==
    sitePc = "done" =>
        /\ Len(siteRun.articles) = Len(siteRun.processed)
        /\ \A i \in 1..Len(siteRun.articles) :
              /\ siteRun.articles[i].url = siteRun.processed[i]
              /\ siteRun.processed[i] \in siteRun.failing
                    => siteRun.articles[i].section = "error"

\* C4: a URL that discovery returns twice is processed once and produces one
\* record.
C4_EachDistinctUrlProcessedOnce ==
    sitePc = "done" =>
        /\ NoDuplicates(siteRun.processed)
        /\ NoDuplicates([i \in 1..Len(siteRun.articles) |-> siteRun.articles[i].url])

\* C5: the number of records of a run never exceeds max_articles of the
\* batch driver.
C5_RecordsBoundedByMaxArticles ==
    sitePc = "done" => Len(siteRun.articles) <= max_articles

\* the method that is configured after the primary one
SecondaryMethod(c, primary) ==
    IF primary = "scraper" THEN DefaultMethod(c)
    ELSE IF primary = "rss" /\ c.sitemap THEN "sitemap"
    ELSE None

\* C6: when the primary method yields zero URLs and a secondary method is
\* configured, the secondary method is attempted exactly once in the run.
C6_SecondaryAttemptedOnce ==
    (sitePc = "done" /\ siteRun.attempted # <<>>) =>
        LET c == get_all_competitors[SiteIndex(site)]
            secondary == SecondaryMethod(c, siteRun.attempted[1])
        IN  (siteRun.yields[1] = 0 /\ secondary # None /\ siteRun.log # "error") =>
                Cardinality({i \in 2..Len(siteRun.attempted) :
                                siteRun.attempted[i] = secondary}) = 1

(***************************************************************************)
(* SpecSitemap: one call of a sitemap discovery function.                  *)
(***************************************************************************)
\* the day of the call
Today == 40 * HoursPerDay

NowValues == {Today + 1, Today + 23}
TzValues == {0, 2}
DaysBackValues == {1, 30}

\* written dates: today 00:00, yesterday 00:00, ten days ago 12:00,
\* thirty-one days ago 00:00
WallValues ==
    {Today, Today - HoursPerDay, Today - 10 * HoursPerDay + 12, Today - 31 * HoursPerDay}

TsValues ==
    {NoTs, BadTs}
    \cup [kind : {"aware"}, wall : WallValues, offset : {-5, 0, 2}]
    \cup [kind : {"naive"}, wall : WallValues, offset : {0}]
    \cup [kind : {"date"}, wall : {w \in WallValues : w % HoursPerDay = 0}, offset : {0}]

SitemapEntries == [loc : URLs \cup {NoLoc}, ts : TsValues]

\* sitemap documents: every URL is listed once
SitemapDocs ==
    {d \in SeqUpTo(SitemapEntries, MaxSitemapLen) :
        \A i, j \in 1..Len(d) : (i # j /\ d[i].loc # NoLoc) => d[i].loc # d[j].loc}

InitSitemap ==
    /\ smDoc \in SitemapDocs
    /\ smNow \in NowValues
    /\ smTz \in TzValues
    /\ smDays \in DaysBackValues
    /\ smFunc = None
    /\ smResult = <<>>
    /\ max_articles = 1
    /\ BatchIdle /\ SiteIdle /\ FeedIdle /\ ExportIdle /\ RecordsIdle /\ TextIdle /\ PathsIdle
    /\ IndexIdle /\ AutomationIdle /\ FailuresIdle

CallGetRecentArticleUrls ==
    /\ smFunc = None
    /\ smFunc' = "generic"
    /\ smResult' = GetRecentArticleUrls(smDoc, smNow, smTz, smDays)
    /\ UNCHANGED <<smDoc, smNow, smTz, smDays, batchVars, siteVars, fdVars, exVars, rcVars, ctVars, pfVars,
                 ixVars, auVars, dfVars>>

CallElEspanolGetRecentArticleUrls ==
    /\ smFunc = None
    /\ smFunc' = "el_espanol"
    /\ smResult' = ElEspanolGetRecentArticleUrls(smDoc, smNow, smDays)
    /\ UNCHANGED <<smDoc, smNow, smTz, smDays, batchVars, siteVars, fdVars, exVars, rcVars, ctVars, pfVars,
                 ixVars, auVars, dfVars>>

CallPublicoGetRecentArticleUrls ==
    /\ smFunc = None
    /\ smFunc' = "publico"
    /\ smResult' = PublicoGetRecentArticleUrls(smDoc, smNow, smDays)
    /\ UNCHANGED <<smDoc, smNow, smTz, smDays, batchVars, siteVars, fdVars, exVars, rcVars, ctVars, pfVars,
                 ixVars, auVars, dfVars>>

NextSitemap ==
    \/ CallGetRecentArticleUrls
    \/ CallElEspanolGetRecentArticleUrls
    \/ CallPublicoGetRecentArticleUrls

SpecSitemap == InitSitemap /\ [][NextSitemap]_vars

(***************************************************************************)
(* Properties of sitemap discovery (SpecSitemap).                          *)
(***************************************************************************)
\* the <url> elements the called function looks at
Considered ==
    IF smFunc = "generic" THEN 1..Min(Len(smDoc), MaxSitemapUrls) ELSE 1..Len(smDoc)

Dated(ts) == ts.kind \in {"aware", "naive", "date"}

\* C7 (as stated): get_recent_article_urls includes an entry with a parseable
\* timestamp exactly when the call instant minus the timestamp is at most
\* days_back days.
C7_IncludedIffWithinDaysBack ==
    smFunc = "generic" =>
        \A i \in Considered :
            (smDoc[i].loc # NoLoc /\ GenericParses(smDoc[i].ts)) =>
                (smDoc[i].loc \in Range(smResult)
                    <=> smNow - Instant(smDoc[i].ts) <= smDays * HoursPerDay)

\* C7 (amended): get_recent_article_urls includes an entry whose timestamp it
\* parses exactly when the date and time written in the timestamp are not
\* before the start of the current local day minus days_back days.
C7_IncludedIffNotBeforeDayCutoff ==
    smFunc = "generic" =>
        \A i \in Considered :
            (smDoc[i].loc # NoLoc /\ GenericParses(smDoc[i].ts)) =>
                (smDoc[i].loc \in Range(smResult)
                    <=> smDoc[i].ts.wall >=
                            LocalMidnight(smNow, smTz) - smDays * HoursPerDay)

\* an entry ten days old is returned with days_back = 30, and a second entry
\* of the same document is left out as too old
C7_Witness ==
    /\ smFunc = "generic"
    /\ smDays = 30
    /\ \E i, j \in 1..Len(smDoc) :
        /\ GenericParses(smDoc[i].ts)
        /\ smDoc[i].ts.wall = Today - 10 * HoursPerDay + 12
        /\ smDoc[i].loc \in Range(smResult)
        /\ GenericParses(smDoc[j].ts)
        /\ smDoc[j].loc # NoLoc
        /\ smDoc[j].loc \notin Range(smResult)

\* C8 (as stated): every sitemap discovery function returns every entry that
\* has a loc and no extractable timestamp.
C8_UndatedAlwaysKept ==
    smFunc # None =>
        \A i \in Considered :
            (smDoc[i].loc # NoLoc /\ ~Dated(smDoc[i].ts)) =>
                smDoc[i].loc \in Range(smResult)

\* C8 (amended): the generic get_recent_article_urls returns every entry that
\* has a loc and a timestamp it cannot extract or parse; the discovery
\* functions of the El Espanol and Publico scrapers leave every such entry
\* out.
C8_UndatedKeptByGenericOnly ==
    \A i \in Considered :
        /\ (/\ smFunc = "generic"
            /\ smDoc[i].loc # NoLoc
            /\ ~GenericParses(smDoc[i].ts))
           => smDoc[i].loc \in Range(smResult)
        /\ (/\ smFunc \in {"el_espanol", "publico"}
            /\ smDoc[i].loc # NoLoc
            /\ ~Dated(smDoc[i].ts))
           => smDoc[i].loc \notin Range(smResult)

\* the generic function returned an entry without timestamp and left out a
\* dated entry of the same document
C8_Witness ==
    /\ smFunc = "generic"
    /\ \E i, j \in 1..Len(smDoc) :
        /\ smDoc[i].ts = NoTs
        /\ smDoc[i].loc # NoLoc
        /\ smDoc[i].loc \in Range(smResult)
        /\ Dated(smDoc[j].ts)
        /\ smDoc[j].loc # NoLoc
        /\ smDoc[j].loc \notin Range(smResult)

(***************************************************************************)
(* Discovery on a sitemap index.  The document fetched for the configured  *)
(* sitemap URL is a sitemap index; ixIndex is the sequence of the          *)
(* sub-sitemaps it lists.  The sub-sitemap at position i is the document   *)
(* <<i>>; it is "urlset" (a sitemap with one <url> of today, the URL       *)
(* [doc |-> <<i>>]), "index" (a sitemap index listing the one sitemap      *)
(* <<i, 1>>, which holds the one URL [doc |-> <<i, 1>>]) or "fail" (its    *)
(* fetch raises requests.RequestException).  The index itself is the       *)
(* document <<>>.                                                          *)
(***************************************************************************)
SubSitemapKinds == {"urlset", "index", "fail"}

\* 'sitemap_urls[:5]' of CompetitorExporter.get_sitemap_urls
MaxSubSitemaps == 5

\* the result of a call: the returned URLs and the documents it fetched
NoUrls(fetched) == [urls |-> <<>>, fetches |-> fetched]

\* CompetitorExporter.get_sitemap_urls on the sub-sitemap i of kind k
GetSitemapUrlsOfSub(i, k) ==
    IF k = "fail" THEN NoUrls(<<<<i>>>>)
    ELSE IF k = "urlset" THEN [urls |-> <<[doc |-> <<i>>]>>, fetches |-> <<<<i>>>>]
    ELSE [urls |-> <<[doc |-> <<i, 1>>]>>, fetches |-> <<<<i>>, <<i, 1>>>>]

\* CompetitorExporter.get_sitemap_urls on the sitemap index
get_sitemap_urls(index) ==
    LET n == Min(Len(index), MaxSubSitemaps)
        subs == [i \in 1..n |-> GetSitemapUrlsOfSub(i, index[i])]
    IN  [urls |-> Concat([i \in 1..n |-> subs[i].urls]),
         fetches |-> <<<<>>>> \o Concat([i \in 1..n |-> subs[i].fetches])]

\* CompetitorExporter.get_recent_article_urls on the sitemap index: the
\* document has no <url> element, 'if not urls: ... return []'
GetRecentArticleUrlsOfIndex(index) == NoUrls(<<<<>>>>)

\* OKDiarioScraper._process_sitemap_urls on the list returned by
\* _get_sitemap_urls (every <sitemap><loc> of the index): the loop over
\* sitemap_urls, from position i with the article_urls collected so far
RECURSIVE ProcessSitemapUrls(_, _, _, _)
ProcessSitemapUrls(index, i, maxArticles, acc) ==
    IF i > Len(index) \/ Len(acc.urls) >= maxArticles THEN acc
    ELSE ProcessSitemapUrls(index, i + 1, maxArticles,
            [urls |-> IF index[i] = "urlset"
                      THEN Append(acc.urls, [doc |-> <<i>>]) ELSE acc.urls,
             fetches |-> Append(acc.fetches, <<i>>)])

(***************************************************************************)
(* SpecIndex: one discovery call on a sitemap index.                       *)
(***************************************************************************)
\* largest number of sub-sitemaps listed by the index
MaxIndexLen == 6

InitIndex ==
    /\ ixIndex \in SeqUpTo(SubSitemapKinds, MaxIndexLen)
    /\ ixFunc = None
    /\ ixUrls = <<>>
    /\ ixFetches = <<>>
    /\ max_articles \in {2, MaxIndexLen}
    /\ BatchIdle /\ SiteIdle /\ SitemapIdle /\ FeedIdle /\ ExportIdle
    /\ RecordsIdle /\ TextIdle /\ PathsIdle /\ AutomationIdle /\ FailuresIdle

\* the sitemap branch of process_competitor: get_recent_article_urls(sitemap_url)
CallGetRecentArticleUrlsOnIndex ==
    /\ ixFunc = None
    /\ ixFunc' = "get_recent_article_urls"
    /\ LET r == GetRecentArticleUrlsOfIndex(ixIndex)
       IN  ixUrls' = r.urls /\ ixFetches' = r.fetches
    /\ UNCHANGED <<ixIndex, batchVars, siteVars, smVars, fdVars, exVars, rcVars,
                   ctVars, pfVars, auVars, dfVars>>

\* get_sitemap_urls(sitemap_url)
CallGetSitemapUrls ==
    /\ ixFunc = None
    /\ ixFunc' = "get_sitemap_urls"
    /\ LET r == get_sitemap_urls(ixIndex)
       IN  ixUrls' = r.urls /\ ixFetches' = r.fetches
    /\ UNCHANGED <<ixIndex, batchVars, siteVars, smVars, fdVars, exVars, rcVars,
                   ctVars, pfVars, auVars, dfVars>>

\* OKDiarioScraper.get_article_urls up to the RSS fallback:
\* _process_sitemap_urls(_get_sitemap_urls(), days_back, max_articles)
CallOKDiarioSitemaps ==
    /\ ixFunc = None
    /\ ixFunc' = "okdiario"
    /\ LET r == ProcessSitemapUrls(ixIndex, 1, max_articles, NoUrls(<<<<>>>>))
       IN  ixUrls' = r.urls /\ ixFetches' = r.fetches
    /\ UNCHANGED <<ixIndex, batchVars, siteVars, smVars, fdVars, exVars, rcVars,
                   ctVars, pfVars, auVars, dfVars>>

NextIndex ==
    \/ CallGetRecentArticleUrlsOnIndex
    \/ CallGetSitemapUrls
    \/ CallOKDiarioSitemaps

SpecIndex == InitIndex /\ [][NextIndex]_vars

(***************************************************************************)
(* Properties of discovery on a sitemap index (SpecIndex).                 *)
(***************************************************************************)
\* the listed sub-sitemaps the call fetched
ExpandedSubs == {i \in 1..Len(ixIndex) : <<i>> \in Range(ixFetches)}

\* the URLs found in the sub-sitemap i
UrlsFoundIn(i) ==
    IF ixIndex[i] = "urlset" THEN {[doc |-> <<i>>]}
    ELSE IF ixIndex[i] = "index" THEN {[doc |-> <<i, 1>>]}
    ELSE {}

\* C28: a discovery call on a sitemap index expands the listed sub-sitemaps,
\* at most 5 of them, and returns the URLs found in the first 5: a URL of
\* one of the first 5 sub-sitemaps is in the returned list (unless the call
\* stopped at max_articles URLs).
C28_IndexIsExpandedUpToFive ==
    ixFunc # None =>
        /\ Cardinality(ExpandedSubs) <= MaxSubSitemaps
        /\ (ixFunc = "okdiario" => Len(ixUrls) < max_articles) =>
              \A i \in 1..Min(Len(ixIndex), MaxSubSitemaps) :
                  UrlsFoundIn(i) \subseteq Range(ixUrls)

(***************************************************************************)
(* Feed discovery.  A feed is the sequence of its entries [link, date];    *)
(* link is [path, query], the article URL and its tracking query, date is  *)
(* [kind, at] with kind "none" when no date field of the entry can be      *)
(* parsed and kind "ok" with the instant at otherwise.  Every entry        *)
(* carries a link.  A returned entry is [url, publish_date].               *)
(***************************************************************************)
NoDate == [kind |-> "none", at |-> 0]

\* url.split('#')[0].split('?')[0].strip()
StripQuery(link) == [path |-> link.path, query |-> ""]

\* datetime.date() of an instant in UTC, as a day number
DateOf(t) == t \div HoursPerDay

\* timedelta.days of a difference of instants
DaysOf(dt) == dt \div HoursPerDay

\* the entry handling where an entry without date is kept
GenericFeedKeepsUndated(e, now, days) ==
    \/ e.date.kind = "none"
    \/ ~(DateOf(now) - DateOf(e.date.at) > days)

\* one iteration of the loop over feed.entries in
\* CompetitorExporter.get_rss_entries: TRUE when the entry is appended
GenericFeedKeeps(e, now, days) ==
    /\ e.date.kind = "ok"
    /\ ~(DateOf(now) - DateOf(e.date.at) > days)

\* CompetitorExporter.get_rss_entries on one fetched feed
get_rss_entries(feed, now, days) ==
    LET kept == SelectSeq(feed, LAMBDA e : GenericFeedKeeps(e, now, days))
    IN  [i \in 1..Len(kept) |-> [url |-> kept[i].link, publish_date |-> kept[i].date.at]]

\* the RSS branch of process_competitor: rss_entries.extend(entries) for
\* each configured feed
RssBranchEntries(feeds, now, days) ==
    Concat([k \in 1..Len(feeds) |-> get_rss_entries(feeds[k], now, days)])

\* 'max_articles_per_feed' of the El Pais configuration
ElPaisMaxArticlesPerFeed == 50

\* ElPaisScraper._process_rss_entry: <<>> is None
ProcessRssEntry(e, now, days) ==
    IF e.date.kind = "none" THEN <<>>
    ELSE IF DaysOf(now - e.date.at) > days THEN <<>>
    ELSE <<[url |-> StripQuery(e.link), publish_date |-> e.date.at]>>

\* ElPaisScraper._fetch_single_feed
FetchSingleFeed(feed, now, days, maxPerFeed) ==
    LET processed == Concat([i \in 1..Min(Len(feed), maxPerFeed) |->
                                ProcessRssEntry(feed[i], now, days)])
    IN  SelectSeq(processed, LAMBDA a : a.publish_date >= now - days * HoursPerDay)

\* ElPaisScraper.fetch_rss_entries
fetch_rss_entries(feeds, now, days) ==
    UnionNew(<<>>, [k \in 1..Len(feeds) |->
                      FetchSingleFeed(feeds[k], now, days, ElPaisMaxArticlesPerFeed)])

\* ElConfidencialScraper.get_rss_entries: an entry without parsed date gets
\* the current time as its date
ElConfidencialGetRssEntries(feed, now, days) ==
    LET dated == [i \in 1..Len(feed) |->
                    [url |-> feed[i].link,
                     publish_date |-> IF feed[i].date.kind = "ok"
                                      THEN feed[i].date.at ELSE now]]
    IN  SelectSeq(dated, LAMBDA a : ~(now - a.publish_date > days * HoursPerDay))

\* the loop over config['rss_feeds'] in create_el_confidencial_scraper
ElConfidencialFeedEntries(feeds, now, days) ==
    Concat([k \in 1..Len(feeds) |-> ElConfidencialGetRssEntries(feeds[k], now, days)])

(***************************************************************************)
(* SpecFeed: one run of feed discovery over the configured feeds of a      *)
(* site.                                                                   *)
(***************************************************************************)
\* largest number of feeds of a site
MaxFeeds == 2
\* largest number of entries in all the feeds of a site
MaxFeedEntries == 2

Links == {[path |-> "a", query |-> ""], [path |-> "a", query |-> "utm"],
          [path |-> "b", query |-> ""]}

\* written dates: none, one hour before the call, ten days before
FeedDates == {NoDate, [kind |-> "ok", at |-> Today],
              [kind |-> "ok", at |-> Today - 10 * HoursPerDay]}

\* the entries of all feeds, each with the number of its feed, feed by feed
TaggedEntries(n) ==
    {t \in SeqUpTo([feed : 1..n, link : Links, date : FeedDates], MaxFeedEntries) :
        \A i \in 1..Len(t) - 1 : t[i].feed <= t[i + 1].feed}

FeedsOf(n, t) ==
    [k \in 1..n |->
        LET mine == SelectSeq(t, LAMBDA x : x.feed = k)
        IN  [i \in 1..Len(mine) |-> [link |-> mine[i].link, date |-> mine[i].date]]]

InitFeed ==
    /\ \E n \in 1..MaxFeeds : \E t \in TaggedEntries(n) : fdFeeds = FeedsOf(n, t)
    /\ fdNow = Today + 1
    /\ fdDays = 1
    /\ fdFunc = None
    /\ fdResult = <<>>
    /\ max_articles = 1
    /\ BatchIdle /\ SiteIdle /\ SitemapIdle /\ ExportIdle /\ RecordsIdle /\ TextIdle /\ PathsIdle
    /\ IndexIdle /\ AutomationIdle /\ FailuresIdle

RunRssBranch ==
    /\ fdFunc = None
    /\ fdFunc' = "rss_branch"
    /\ fdResult' = RssBranchEntries(fdFeeds, fdNow, fdDays)
    /\ UNCHANGED <<fdFeeds, fdNow, fdDays, batchVars, siteVars, smVars, exVars, rcVars, ctVars, pfVars,
                 ixVars, auVars, dfVars>>

RunElPaisFetchRssEntries ==
    /\ fdFunc = None
    /\ fdFunc' = "el_pais"
    /\ fdResult' = fetch_rss_entries(fdFeeds, fdNow, fdDays)
    /\ UNCHANGED <<fdFeeds, fdNow, fdDays, batchVars, siteVars, smVars, exVars, rcVars, ctVars, pfVars,
                 ixVars, auVars, dfVars>>

RunElConfidencialFeeds ==
    /\ fdFunc = None
    /\ fdFunc' = "el_confidencial"
    /\ fdResult' = ElConfidencialFeedEntries(fdFeeds, fdNow, fdDays)
    /\ UNCHANGED <<fdFeeds, fdNow, fdDays, batchVars, siteVars, smVars, exVars, rcVars, ctVars, pfVars,
                 ixVars, auVars, dfVars>>

NextFeed ==
    \/ RunRssBranch
    \/ RunElPaisFetchRssEntries
    \/ RunElConfidencialFeeds

SpecFeed == InitFeed /\ [][NextFeed]_vars

(***************************************************************************)
(* Properties of feed discovery (SpecFeed).                                *)
(***************************************************************************)
\* the URL the called function derives from a link
UrlOf(link) == IF fdFunc = "el_pais" THEN StripQuery(link) ELSE link

\* the returned entry r is derived from a feed entry that carries a date
FromDatedEntry(r) ==
    \E k \in 1..Len(fdFeeds) : \E i \in 1..Len(fdFeeds[k]) :
        /\ fdFeeds[k][i].date.kind = "ok"
        /\ r.url = UrlOf(fdFeeds[k][i].link)
        /\ r.publish_date = fdFeeds[k][i].date.at

\* C9 (as stated): feed discovery (generic, El Pais, El Confidencial) drops
\* every entry without parseable date: every returned entry is derived from
\* a dated feed entry.
C9_UndatedFeedEntriesDropped ==
    fdFunc # None => \A j \in 1..Len(fdResult) : FromDatedEntry(fdResult[j])

\* C9 (amended): the generic get_rss_entries and the El Pais scraper drop
\* every entry without parseable date; the El Confidencial scraper returns
\* every such entry, dated with the time of the call.
C9_UndatedDroppedExceptElConfidencial ==
    /\ fdFunc \in {"rss_branch", "el_pais"} =>
        \A j \in 1..Len(fdResult) : FromDatedEntry(fdResult[j])
    /\ fdFunc = "el_confidencial" =>
        \A k \in 1..Len(fdFeeds) : \A i \in 1..Len(fdFeeds[k]) :
            fdFeeds[k][i].date.kind = "none" =>
                \E j \in 1..Len(fdResult) :
                    /\ fdResult[j].url = fdFeeds[k][i].link
                    /\ fdResult[j].publish_date = fdNow

\* the generic function returned a dated entry and no entry for the URL of
\* an undated entry of the same feeds
C9_Witness ==
    /\ fdFunc = "rss_branch"
    /\ fdResult # <<>>
    /\ \E k \in 1..Len(fdFeeds) : \E i \in 1..Len(fdFeeds[k]) :
        /\ fdFeeds[k][i].date.kind = "none"
        /\ \A j \in 1..Len(fdResult) : fdResult[j].url # fdFeeds[k][i].link

\* C10: feed discovery over several feeds (ElPaisScraper.fetch_rss_entries
\* and the RSS branch of process_competitor) never returns two entries with
\* the same URL.
C10_NoTwoEntriesWithSameUrl ==
    fdFunc \in {"el_pais", "rss_branch"} =>
        \A i, j \in 1..Len(fdResult) : fdResult[i].url = fdResult[j].url => i = j

(***************************************************************************)
(* The output file.  A text is a sequence of characters; a word without    *)
(* special characters stands for any run of ordinary characters.  A value  *)
(* of an article dictionary is [t, s, l]: t = "absent" (no such key),      *)
(* "none" (None), "str" (the text s) or "list" (the list l of texts).      *)
(* An article is a record over the nine schema keys and the key "text",    *)
(* which stands for every key outside the schema.                          *)
(***************************************************************************)
fieldnames ==
    <<"title", "url", "publish_date", "authors", "source", "domain", "summary",
      "section", "subsection">>

ArticleKeys == Range(fieldnames) \cup {"text"}

Absent == [t |-> "absent", s |-> <<>>, l |-> <<>>]
NoneValue == [t |-> "none", s |-> <<>>, l |-> <<>>]
StrValue(txt) == [t |-> "str", s |-> txt, l |-> <<>>]
ListValue(lst) == [t |-> "list", s |-> <<>>, l |-> lst]

delimiter == "^"
quotechar == "\""
escapechar == "\\"
lineterminator == <<"\r", "\n">>
BOM == "BOM"

RECURSIVE JoinTexts(_, _)
\* sep.join(texts)
JoinTexts(texts, sep) ==
    IF texts = <<>> THEN <<>>
    ELSE IF Len(texts) = 1 THEN texts[1]
    ELSE texts[1] \o sep \o JoinTexts(Tail(texts), sep)

\* repr() of a list of strings, as str(value) gives it
ReprOfList(lst) ==
    <<"[">> \o JoinTexts([i \in 1..Len(lst) |-> <<"'">> \o lst[i] \o <<"'">>],
                         <<",", " ">>) \o <<"]">>

\* the conversion where None is written as str(None)
RowValueStrOfNone(article, field) ==
    LET v == article[field]
    IN  CASE v.t = "str" -> v.s
          [] v.t = "list" -> ReprOfList(v.l)
          [] v.t = "none" -> <<"None">>
          [] OTHER -> <<>>

\* value = article.get(field, ''); None becomes '', a non-string str(value)
RowValue(article, field) ==
    LET v == article[field]
    IN  CASE v.t = "str" -> v.s
          [] v.t = "list" -> ReprOfList(v.l)
          [] OTHER -> <<>>

\* the row dictionary built for one article
RowOf(article) == [i \in 1..Len(fieldnames) |-> RowValue(article, fieldnames[i])]

\* csv.writer with quoting=QUOTE_MINIMAL: a field is quoted when it holds
\* the delimiter or a character of the line terminator (or, with
\* doublequote, the quote character)
NeedsQuotes(field, doublequote) ==
    \E i \in 1..Len(field) :
        \/ field[i] = delimiter
        \/ field[i] \in Range(lineterminator)
        \/ doublequote /\ field[i] = quotechar

\* the characters written for one character of a field: with doublequote
\* the quote character is doubled, without it the quote character and the
\* escape character are preceded by the escape character
WrittenChar(c, doublequote) ==
    IF doublequote
    THEN IF c = quotechar THEN <<quotechar, quotechar>> ELSE <<c>>
    ELSE IF c = quotechar \/ c = escapechar THEN <<escapechar, c>> ELSE <<c>>

WrittenField(field, doublequote) ==
    LET body == Concat([i \in 1..Len(field) |-> WrittenChar(field[i], doublequote)])
    IN  IF NeedsQuotes(field, doublequote)
        THEN <<quotechar>> \o body \o <<quotechar>>
        ELSE body

\* writer.writerow(row)
WrittenRow(row, doublequote) ==
    JoinTexts([i \in 1..Len(row) |-> WrittenField(row[i], doublequote)], <<delimiter>>)
        \o lineterminator

\* writer.writeheader()
WrittenHeader(doublequote) ==
    WrittenRow([i \in 1..Len(fieldnames) |-> <<fieldnames[i]>>], doublequote)

WrittenRows(articles, doublequote) ==
    Concat([i \in 1..Len(articles) |-> WrittenRow(RowOf(articles[i]), doublequote)])

\* the export where the header is written on every call
ExportArticlesToFileHeaderAlways(file, articles) ==
    IF articles = <<>> THEN file
    ELSE file
         \o (IF file = <<>> THEN <<BOM>> ELSE <<>>)
         \o WrittenHeader(FALSE)
         \o WrittenRows(articles, FALSE)

\* BaseExporter._export_articles_to_file on the file text: nothing is done
\* for an empty list; the file is opened with mode 'a' and utf-8-sig (the
\* byte-order mark is written at position 0 only), the header is written
\* when the file is missing or empty, the rows are those of the articles as
\* given
ExportArticlesToFile(file, articles) ==
    IF articles = <<>> THEN file
    ELSE file
         \o (IF file = <<>> THEN <<BOM>> \o WrittenHeader(FALSE) ELSE <<>>)
         \o WrittenRows(articles, FALSE)

\* CompetitorExporter.export_articles_to_csv on the file text: the file is
\* opened with mode 'w' and utf-8, the header is always written
ExportArticlesToCsv(file, articles) ==
    WrittenHeader(TRUE) \o WrittenRows(articles, TRUE)

(***************************************************************************)
(* Reading the file back: decode (a leading byte-order mark is dropped),   *)
(* split into lines, split every line on the delimiter.                    *)
(***************************************************************************)
RECURSIVE SplitOn(_, _)
\* text.split(sep) for a one-character separator
SplitOn(text, sep) ==
    LET hits == {i \in 1..Len(text) : text[i] = sep}
    IN  IF hits = {} THEN <<text>>
        ELSE LET k == CHOOSE i \in hits : \A j \in hits : i <= j
             IN  <<SubSeq(text, 1, k - 1)>> \o SplitOn(SubSeq(text, k + 1, Len(text)), sep)

DropBOM(text) == IF text # <<>> /\ text[1] = BOM THEN Tail(text) ELSE text

DropCR(line) ==
    IF line # <<>> /\ line[Len(line)] = "\r" THEN SubSeq(line, 1, Len(line) - 1) ELSE line

\* the lines of the text: a line ends at "\n" or "\r\n"; no empty last line
SplitLines(text) ==
    LET parts == SplitOn(text, "\n")
        lines == IF parts[Len(parts)] = <<>> THEN SubSeq(parts, 1, Len(parts) - 1)
                 ELSE parts
    IN  [i \in 1..Len(lines) |-> DropCR(lines[i])]

\* the table read back from the file
ReParse(file) ==
    LET lines == SplitLines(DropBOM(file))
    IN  [i \in 1..Len(lines) |-> SplitOn(lines[i], delimiter)]

HeaderRow == [i \in 1..Len(fieldnames) |-> <<fieldnames[i]>>]

(***************************************************************************)
(* SpecExport: the exports of one site on one day, each of a non-empty     *)
(* article list (process_competitor exports only when it has articles).    *)
(***************************************************************************)
\* largest number of exports of the day
MaxExports == 2
\* largest number of articles in all the exports of the day
MaxExportRows == 3

\* a record with all nine keys and ordinary text
PlainArticle(u) ==
    [title |-> StrValue(<<"Title">>), url |-> StrValue(<<u>>),
     publish_date |-> StrValue(<<"2025-06-26">>), authors |-> StrValue(<<"Ana">>),
     source |-> StrValue(<<"Site">>), domain |-> StrValue(<<"site.es">>),
     summary |-> StrValue(<<"Summary">>), section |-> StrValue(<<"general">>),
     subsection |-> StrValue(<<"sub">>), text |-> Absent]

\* the record ElEspanolScraper.get_article_data returns on failure
ErrorStub(u) ==
    [title |-> StrValue(<<"Error al extraer el articulo">>), url |-> StrValue(<<u>>),
     publish_date |-> StrValue(<<"2025-06-26">>), authors |-> ListValue(<< <<"Error">> >>),
     source |-> StrValue(<<"Site">>), domain |-> StrValue(<<"site.es">>),
     summary |-> StrValue(<<"Error al procesar el articulo: ", "timeout">>),
     section |-> StrValue(<<"error">>), subsection |-> StrValue(<<>>),
     text |-> StrValue(<<>>)]

\* articles the exporters are given
ArticleSamples ==
    {PlainArticle(u) : u \in URLs}
    \cup {ErrorStub("a"),
          [PlainArticle("a") EXCEPT !.subsection = Absent, !.text = StrValue(<<"Body">>)],
          [PlainArticle("a") EXCEPT !.summary = NoneValue],
          [PlainArticle("a") EXCEPT !.summary = StrValue(<<"x", "\n", "y">>)],
          [PlainArticle("a") EXCEPT !.title = StrValue(<<"x", delimiter, "y">>)],
          [PlainArticle("a") EXCEPT !.title = StrValue(<<"x", quotechar, "y">>)],
          [PlainArticle("a") EXCEPT !.authors = ListValue(<< <<"Ana">>, <<"Luis">> >>)]}

RowsSoFar == Len(Concat(exHist))

ExportBatches(n) == SeqUpTo(ArticleSamples, n) \ {<<>>}

InitExport ==
    /\ exKind \in {"dedicated", "default"}
    /\ exFile = <<>>
    /\ exHist = <<>>
    /\ max_articles = 1
    /\ BatchIdle /\ SiteIdle /\ SitemapIdle /\ FeedIdle /\ RecordsIdle /\ TextIdle /\ PathsIdle
    /\ IndexIdle /\ AutomationIdle /\ FailuresIdle

\* exporter.export_articles(articles, competitor_name)
ExportWithDedicatedExporter ==
    /\ exKind = "dedicated"
    /\ Len(exHist) < MaxExports
    /\ \E articles \in ExportBatches(MaxExportRows - RowsSoFar) :
        /\ exFile' = ExportArticlesToFile(exFile, articles)
        /\ exHist' = Append(exHist, articles)
    /\ UNCHANGED <<exKind, batchVars, siteVars, smVars, fdVars, rcVars, ctVars, pfVars,
                 ixVars, auVars, dfVars>>

\* self.export_articles_to_csv(articles, competitor_name)
ExportWithDefaultExporter ==
    /\ exKind = "default"
    /\ Len(exHist) < MaxExports
    /\ \E articles \in ExportBatches(MaxExportRows - RowsSoFar) :
        /\ exFile' = ExportArticlesToCsv(exFile, articles)
        /\ exHist' = Append(exHist, articles)
    /\ UNCHANGED <<exKind, batchVars, siteVars, smVars, fdVars, rcVars, ctVars, pfVars,
                 ixVars, auVars, dfVars>>

NextExport ==
    \/ ExportWithDedicatedExporter
    \/ ExportWithDefaultExporter

SpecExport == InitExport /\ [][NextExport]_vars

(***************************************************************************)
(* Properties of the output file (SpecExport).                             *)
(***************************************************************************)
SpecialChars == {delimiter, quotechar, escapechar, "\r", "\n"}

\* no written value of the article holds a special character
CleanArticle(article) ==
    \A k \in 1..Len(fieldnames) : Range(RowOf(article)[k]) \cap SpecialChars = {}

CleanHist == \A i \in 1..Len(exHist) : \A j \in 1..Len(exHist[i]) : CleanArticle(exHist[i][j])

UrlsOf(articles) == {RowOf(articles[j])[2] : j \in 1..Len(articles)}

\* the exports of the day have pairwise disjoint URL sets
DisjointExports ==
    \A i, j \in 1..Len(exHist) : i # j => UrlsOf(exHist[i]) \cap UrlsOf(exHist[j]) = {}

RowsOf(articles) == [j \in 1..Len(articles) |-> RowOf(articles[j])]

C12_NoTwoRowsWithSameUrl ==
    (/\ CleanHist
     /\ \A i \in 1..Len(exHist) : Cardinality(UrlsOf(exHist[i])) = Len(exHist[i])) =>
        LET table == ReParse(exFile)
        IN  \A i, j \in 2..Len(table) : table[i][2] = table[j][2] => i = j

\* C13: one export of N records to a new file, read back by splitting into
\* lines and on the delimiter, gives the header row and N data rows, each
\* with the 9 columns, whatever the field values contain.
C13_RoundTripGivesHeaderAndNRows ==
    Len(exHist) = 1 =>
        LET table == ReParse(exFile)
        IN  /\ Len(table) = 1 + Len(exHist[1])
            /\ table[1] = HeaderRow
            /\ \A i \in 1..Len(table) : Len(table[i]) = Len(fieldnames)

\* the value the row must hold for a key of the article
ExpectedColumn(article, field) ==
    IF article[field].t \in {"absent", "none"} THEN <<>> ELSE RowValue(article, field)

C27_AuthorListIsJoined ==
    (Len(exHist) = 1 /\ CleanHist) =>
        LET table == ReParse(exFile)
        IN  \A i \in 1..Len(exHist[1]) :
                exHist[1][i].authors.t = "list" =>
                    table[i + 1][4] = JoinTexts(exHist[1][i].authors.l, <<",", " ">>)

(***************************************************************************)
(* Text cleaning: the three clean_text implementations.  A text is a       *)
(* sequence of characters; "x" stands for any character that is not white  *)
(* space.  str.split() without arguments cuts the text at every run of     *)
(* white space and returns the non-empty pieces.                           *)
(***************************************************************************)
Whitespace == {" ", "\t", "\n", "\r"}

RECURSIVE SplitFrom(_, _, _)
\* the pieces of text from position i on, word being the piece in progress;
\* seps are the characters that end a piece
SplitFrom(text, seps, word) ==
    IF text = <<>> THEN (IF word = <<>> THEN <<>> ELSE <<word>>)
    ELSE IF Head(text) \in seps
         THEN (IF word = <<>> THEN <<>> ELSE <<word>>)
              \o SplitFrom(Tail(text), seps, <<>>)
         ELSE SplitFrom(Tail(text), seps, Append(word, Head(text)))

\* a split that cuts at the space character only
SplitAtSpaces(text) == SplitFrom(text, {" "}, <<>>)

\* str.split()
Split(text) == SplitFrom(text, Whitespace, <<>>)

RECURSIVE Strip(_)
\* str.strip()
Strip(text) ==
    IF text = <<>> THEN <<>>
    ELSE IF Head(text) \in Whitespace THEN Strip(Tail(text))
    ELSE IF text[Len(text)] \in Whitespace
         THEN Strip(SubSeq(text, 1, Len(text) - 1))
    ELSE text

RECURSIVE ReplaceRuns(_, _, _)
\* re.sub(r'[chars]+', ' ', text): inRun tells that the previous character
\* belonged to the run being replaced
ReplaceRuns(text, chars, inRun) ==
    IF text = <<>> THEN <<>>
    ELSE IF Head(text) \in chars
         THEN (IF inRun THEN <<>> ELSE <<" ">>)
              \o ReplaceRuns(Tail(text), chars, TRUE)
         ELSE <<Head(text)>> \o ReplaceRuns(Tail(text), chars, FALSE)

\* bool(value): None, '' and the empty list are falsy
Truthy(v) == (v.t = "str" /\ v.s # <<>>) \/ (v.t = "list" /\ v.l # <<>>)

\* str(value) of a value that is not None
StrOf(v) == IF v.t = "list" THEN ReprOfList(v.l) ELSE v.s

\* BaseScraper.clean_text of competitors/base_scraper.py
BaseScraperCleanText(v) ==
    IF ~Truthy(v) THEN <<>>
    ELSE LET text == IF v.t = "list"
                     THEN JoinTexts(SelectSeq(v.l, LAMBDA item : item # <<>>),
                                    <<" ">>)
                     ELSE v.s
         IN  Strip(JoinTexts(Split(text), <<" ">>))

\* BaseScraper.clean_text of competitors/scrapers/base_scraper.py
ScrapersBaseCleanText(v) ==
    IF ~Truthy(v) THEN <<>> ELSE JoinTexts(Split(StrOf(v)), <<" ">>)

\* clean_text of competitors/scrapers/el_mundo_scraper.py
ElMundoCleanText(v) ==
    IF ~Truthy(v) THEN <<>>
    ELSE Strip(ReplaceRuns(JoinTexts(Split(StrOf(v)), <<" ">>),
                           {"\r", "\n", "\t"}, FALSE))

CleanTextImpls == {"competitors.base_scraper", "competitors.scrapers.base_scraper",
                   "competitors.scrapers.el_mundo_scraper"}

clean_text(impl, v) ==
    CASE impl = "competitors.base_scraper" -> BaseScraperCleanText(v)
      [] impl = "competitors.scrapers.base_scraper" -> ScrapersBaseCleanText(v)
      [] OTHER -> ElMundoCleanText(v)

(***************************************************************************)
(* SpecText: clean_text applied to an input, then to its own result.       *)
(***************************************************************************)
\* longest input text
MaxTextLen == 4

TextChars == {"x", " ", "\t", "\n"}

Texts == SeqUpTo(TextChars, MaxTextLen)

\* the inputs: None, every text, and lists of up to two short texts
CleanTextInputs ==
    {NoneValue} \cup {StrValue(txt) : txt \in Texts}
    \cup {ListValue(lst) : lst \in SeqUpTo(SeqUpTo(TextChars, 1), 2)}

InitText ==
    /\ ctImpl \in CleanTextImpls
    /\ ctInput \in CleanTextInputs
    /\ ctCalls = 0
    /\ ctText = <<>>
    /\ max_articles = 1
    /\ BatchIdle /\ SiteIdle /\ SitemapIdle /\ FeedIdle /\ ExportIdle
    /\ RecordsIdle /\ PathsIdle
    /\ IndexIdle /\ AutomationIdle /\ FailuresIdle

\* clean_text(s)
CallCleanText ==
    /\ ctCalls = 0
    /\ ctText' = clean_text(ctImpl, ctInput)
    /\ ctCalls' = 1
    /\ UNCHANGED <<ctImpl, ctInput, batchVars, siteVars, smVars, fdVars, exVars,
                   rcVars, pfVars,
                 ixVars, auVars, dfVars>>

\* clean_text(clean_text(s))
CallCleanTextAgain ==
    /\ ctCalls = 1
    /\ ctText' = clean_text(ctImpl, StrValue(ctText))
    /\ ctCalls' = 2
    /\ UNCHANGED <<ctImpl, ctInput, batchVars, siteVars, smVars, fdVars, exVars,
                   rcVars, pfVars,
                 ixVars, auVars, dfVars>>

NextText ==
    \/ CallCleanText
    \/ CallCleanTextAgain

SpecText == InitText /\ [][NextText]_vars

(***************************************************************************)
(* Properties of clean_text (SpecText).                                    *)
(***************************************************************************)
\* the text has no white space at either end and no two white-space
\* characters in a row
Collapsed(text) ==
    /\ text # <<>> => Head(text) \notin Whitespace /\ text[Len(text)] \notin Whitespace
    /\ \A i \in 1..(Len(text) - 1) :
           ~(text[i] \in Whitespace /\ text[i + 1] \in Whitespace)

\* C20: clean_text returns, for every input (None, the empty string, texts
\* with tabs and line breaks, lists), a text without leading or trailing
\* white space and without a run of two white-space characters, and applying
\* it to its own result returns that result unchanged.
C20_CleanTextTotalAndIdempotent ==
    /\ ctCalls >= 1 => Collapsed(ctText)
    /\ ctCalls = 2 => ctText = clean_text(ctImpl, ctInput)

\* a text of two words parted by a tab and a line break was cleaned twice
C20_Witness ==
    /\ ctCalls = 2
    /\ ctInput = StrValue(<<"x", "\t", "\n", "x">>)
    /\ ctText = <<"x", " ", "x">>

(***************************************************************************)
(* Text normalization of BaseExporter._export_articles_to_file.            *)
(***************************************************************************)
\* the characters of [\x00-\x08\x0B\x0C\x0E-\x1F\x7F-\x9F] that the texts of
\* the model can hold
ControlChars == {"\f"}

\* normalize_text(text) on a string: the control characters are removed,
\* every run of white space (line breaks included) becomes one space, the
\* text is stripped; composing and re-encoding leave these texts unchanged
normalize_text(text) ==
    Strip(ReplaceRuns(SelectSeq(text, LAMBDA ch : ch \notin ControlChars),
                      Whitespace, FALSE))

\* C26: every string value BaseExporter writes is the normalized form of
\* the value of the record, so the file holds no line break inside a field
\* (one line break per written line) and no control character.
C26_WrittenStringsAreNormalized ==
    exKind = "dedicated" =>
        /\ \A i \in 1..Len(exHist) : \A j \in 1..Len(exHist[i]) :
              \A k \in 1..Len(fieldnames) :
                  exHist[i][j][fieldnames[k]].t = "str" =>
                      RowValue(exHist[i][j], fieldnames[k])
                          = normalize_text(exHist[i][j][fieldnames[k]].s)
        /\ exHist # <<>> =>
              Cardinality({p \in 1..Len(exFile) : exFile[p] = "\n"}) = 1 + RowsSoFar
        /\ \A p \in 1..Len(exFile) : exFile[p] \notin ControlChars

(***************************************************************************)
(* Article records built by the scrapers.  A page is what the download of  *)
(* one URL gives: fails (the download or the parsing raises, with the      *)
(* message error), the title, the authors found by the extraction          *)
(* library, the authors of the meta tags or of the structured data, and    *)
(* whether a publication date is found.  An article is a record over       *)
(* ArticleKeys, as in the output file.                                     *)
(***************************************************************************)
AnaRuiz == <<"A", "n", "a", " ", "R", "u", "i", "z">>
JuanGarcia == <<"J", "u", "a", "n", " ", "G", "a", "r", "c", "i'", "a">>
Redaccion == <<"R", "e", "d", "a", "c", "c", "i", "o'", "n">>
ReadingTime == <<"3", " ", "m", "i", "n", " ", "d", "e", " ", "l", "e", "c", "t", "u", "r", "a">>

\* the default of the parameter max_name_length of clean_authors
max_name_length == 50

\* the words and phrases that exclude_patterns searches between two word
\* boundaries, ignoring case.  The other exclude patterns need a digit or a
\* text without any letter, which no include pattern admits, or one of
\* these words followed or preceded by white space.
ExcludeWords ==
    {<<"p", "o", "r">>,
     <<"d", "e">>,
     <<"l", "a">>,
     <<"e", "l">>,
     <<"y">>,
     <<"p", "a", "r", "a">>,
     <<"c", "o", "n">>,
     <<"a", "c", "t", "u", "a", "l", "i", "z", "a", "d", "o">>,
     <<"p", "u", "b", "l", "i", "c", "a", "d", "o">>,
     <<"c", "o", "m", "p", "a", "r", "t", "i", "r">>,
     <<"t", "w", "i", "t", "t", "e", "r">>,
     <<"f", "a", "c", "e", "b", "o", "o", "k">>,
     <<"i", "n", "s", "t", "a", "g", "r", "a", "m">>,
     <<"w", "h", "a", "t", "s", "a", "p", "p">>,
     <<"t", "e", "l", "e", "g", "r", "a", "m">>,
     <<"e", "m", "a", "i", "l">>,
     <<"c", "o", "r", "r", "e", "o">>,
     <<"c", "o", "n", "t", "a", "c", "t", "o">>,
     <<"w", "e", "b">>,
     <<"p", "a'", "g", "i", "n", "a">>,
     <<"p", "a", "g", "i", "n", "a">>,
     <<"p", "a'", "g", "i", "n", "a", " ", "w", "e", "b">>,
     <<"s", "e", "g", "u", "i", "r">>,
     <<"s", "e", "g", "u", "i", "r", " ", "l", "e", "y", "e", "n", "d", "o">>,
     <<"n", "o", "t", "i", "c", "i", "a", "s", " ", "r", "e", "l", "a", "c", "i", "o", "n", "a", "d", "a", "s">>,
     <<"m", "a", "s", " ", "e", "n">>,
     <<"m", "a'", "s", " ", "e", "n">>,
     <<"v", "e", "r", " ", "m", "a'", "s">>,
     <<"v", "e", "r", " ", "m", "a", "s">>,
     <<"c", "o", "m", "e", "n", "t", "a", "r", "i", "o", "s">>,
     <<"c", "o", "m", "e", "n", "t", "a", "r">>,
     <<"c", "o", "m", "e", "n", "t", "a">>,
     <<"c", "o", "m", "e", "n", "t", "a", "r", "i", "o">>,
     <<"m", "i", "n">>,
     <<"d", "e", " ", "l", "e", "c", "t", "u", "r", "a">>,
     <<"l", "e", "c", "t", "u", "r", "a">>,
     <<"m", "i", "n", "u", "t", "o">>,
     <<"m", "i", "n", "u", "t", "o", "s">>,
     <<"r", "e", "d", "a", "c", "c", "i", "o'", "n">>,
     <<"r", "e", "d", "a", "c", "c", "i", "o", "n">>,
     <<"e", "q", "u", "i", "p", "o">>,
     <<"s", "t", "a", "f", "f">>,
     <<"e", "d", "i", "t", "o", "r", "i", "a", "l">>,
     <<"e", "d", "i", "c", "i", "o'", "n">>,
     <<"e", "d", "i", "c", "i", "o", "n">>,
     <<"n", "o", "t", "a", " ", "d", "e", " ", "p", "r", "e", "n", "s", "a">>,
     <<"c", "o", "m", "u", "n", "i", "c", "a", "d", "o">>,
     <<"a", "g", "e", "n", "c", "i", "a">>,
     <<"a", "g", "e", "n", "c", "i", "a", "s">>,
     <<"e", "f">>,
     <<"e", "f", "e">>,
     <<"e", "f", "i">>,
     <<"e", "n">>,
     <<"a">>,
     <<"p", "o", "r", "q", "u", "e">>,
     <<"s", "e", "g", "u'", "n">>}

\* the articles of the pattern (el|la|los|las)\s+ that are not in ExcludeWords
ExcludeBeforeSpace == {<<"l", "o", "s">>, <<"l", "a", "s">>}

\* str.lower()
LowerText(text) == [i \in 1..Len(text) |-> LowerChar(text[i])]

\* the regular expression class \w
IsWordChar(ch) == IsAlnum(ch) \/ ch = "_"

\* re.search(r'\bword\b', text) on a text in lower case, or with \s+ in the
\* place of the second \b when spaceAfter
SearchWord(word, text, spaceAfter) ==
    \E i \in 1..(Len(text) - Len(word) + 1) :
        LET j == i + Len(word)
        IN  /\ SubSeq(text, i, j - 1) = word
            /\ (i = 1 \/ ~IsWordChar(text[i - 1]))
            /\ IF spaceAfter THEN j <= Len(text) /\ text[j] \in Whitespace
               ELSE j > Len(text) \/ ~IsWordChar(text[j])

\* any(re.search(pattern, author, re.IGNORECASE) for pattern in exclude_patterns):
\* ignoring case is searching the text in lower case
MatchesExclude(author) ==
    LET low == LowerText(author)
    IN  \/ \E word \in ExcludeWords : SearchWord(word, low, FALSE)
        \/ \E word \in ExcludeBeforeSpace : SearchWord(word, low, TRUE)

\* [A-Z...][a-z...]+ as a whole word
IsCapWord(w) ==
    /\ Len(w) >= 2
    /\ w[1] \in Range(UpperLetters)
    /\ \A i \in 2..Len(w) : w[i] \in Range(LowerLetters)

\* the include patterns of clean_authors on a stripped text: two to four
\* capitalized words; a capitalized first and last word with lower-case
\* words between them; two or three capitalized words and an initial
LooksLikeName(author) ==
    LET w == Split(author)
        n == Len(w)
    IN  \/ n \in 2..4 /\ \A i \in 1..n : IsCapWord(w[i])
        \/ /\ n >= 2 /\ IsCapWord(w[1]) /\ IsCapWord(w[n])
           /\ \A i \in 2..(n - 1) : \A k \in 1..Len(w[i]) :
                   w[i][k] \in Range(LowerLetters)
        \/ /\ n \in 3..4 /\ \A i \in 1..(n - 1) : IsCapWord(w[i])
           /\ w[n][1] \in Range(UpperLetters)
           /\ (Len(w[n]) = 1 \/ (Len(w[n]) = 2 /\ w[n][2] = "."))

RECURSIVE StripChars(_, _)
\* str.strip(chars)
StripChars(text, chars) ==
    IF text = <<>> THEN <<>>
    ELSE IF Head(text) \in chars THEN StripChars(Tail(text), chars)
    ELSE IF text[Len(text)] \in chars
         THEN StripChars(SubSeq(text, 1, Len(text) - 1), chars)
    ELSE text

RECURSIVE FirstOccurrences(_, _)
\* the list without the elements that are, ignoring case, in seen or repeated
FirstOccurrences(lst, seen) ==
    IF lst = <<>> THEN <<>>
    ELSE IF LowerText(Head(lst)) \in seen THEN FirstOccurrences(Tail(lst), seen)
    ELSE <<Head(lst)>>
         \o FirstOccurrences(Tail(lst), seen \cup {LowerText(Head(lst))})

\* the name kept for an author that passed the patterns
TrimmedName(author) ==
    StripChars(ReplaceRuns(Strip(author), Whitespace, FALSE),
               {" ", ",", ".", "-", "_", "|"})

\* the loop body of clean_authors: the author is kept
KeepsAuthor(author) ==
    /\ author # <<>>
    /\ Len(Strip(author)) <= max_name_length
    /\ ~MatchesExclude(Strip(author))
    /\ LooksLikeName(Strip(author))
    /\ Len(TrimmedName(author)) >= 3
    /\ Len(Split(TrimmedName(author))) >= 2

\* BaseScraper.clean_authors on a list of authors
clean_authors(authors) ==
    LET kept == SelectSeq(authors, KeepsAuthor)
    IN  FirstOccurrences([i \in 1..Len(kept) |-> TrimmedName(kept[i])], {})

\* the pages the records are built from
PageSamples ==
    {[fails |-> FALSE, error |-> "timeout", title |-> <<"Title">>,
      authors |-> <<AnaRuiz>>, meta |-> <<>>, dated |-> TRUE],
     [fails |-> FALSE, error |-> "timeout", title |-> <<>>,
      authors |-> <<Redaccion>>, meta |-> <<ReadingTime>>, dated |-> FALSE],
     [fails |-> FALSE, error |-> "timeout", title |-> <<"Title">>,
      authors |-> <<>>, meta |-> <<>>, dated |-> TRUE],
     [fails |-> FALSE, error |-> "timeout", title |-> <<"Title">>,
      authors |-> <<>>, meta |-> <<AnaRuiz>>, dated |-> FALSE],
     [fails |-> TRUE, error |-> "timeout", title |-> <<>>,
      authors |-> <<>>, meta |-> <<>>, dated |-> FALSE]}

NowIso == <<"now">>
PublishedIso == <<"2025-06-26T10:00:00">>

\* text or default
OrText(text, default) == IF text = <<>> THEN default ELSE text

\* the dictionary of an except branch: the error stub
ExceptReturn(name, u, error) ==
    [ErrorStub(u) EXCEPT !.source = StrValue(<<name>>),
                         !.publish_date = StrValue(NowIso),
                         !.summary = StrValue(<<"Error al procesar el articulo: ", error>>)]

\* the dictionary of BaseScraper.get_article_data and of the
\* _scrape_article_content methods: cleaned is the cleaned author list
FullRecord(name, u, page, cleaned) ==
    [title |-> StrValue(OrText(BaseScraperCleanText(StrValue(page.title)),
                               <<"Sin titulo">>)),
     url |-> StrValue(<<u>>),
     publish_date |-> StrValue(IF page.dated THEN PublishedIso ELSE NowIso),
     authors |-> ListValue(IF cleaned # <<>> THEN cleaned ELSE <<Redaccion>>),
     source |-> StrValue(<<name>>),
     domain |-> StrValue(<<"domain">>),
     summary |-> StrValue(OrText(BaseScraperCleanText(StrValue(<<"Body", "...">>)),
                                 <<"Sin resumen disponible">>)),
     section |-> StrValue(<<"general">>),
     subsection |-> StrValue(<<>>),
     text |-> StrValue(<<"Body">>)]

\* BaseScraper.get_article_data: the meta tags are read when the library
\* found no author
BaseScraperGetArticleData(name, u, page) ==
    IF page.fails THEN <<ExceptReturn(name, u, page.error)>>
    ELSE LET raw == IF page.authors = <<>> THEN page.meta ELSE page.authors
         IN  <<FullRecord(name, u, page, clean_authors(raw))>>

\* _scrape_article_content of the Publico, El Confidencial and El Espanol
\* scrapers: the meta tags are read when no author is left after cleaning
ScrapeArticleContent(name, u, page) ==
    LET cleaned == clean_authors(page.authors)
    IN  FullRecord(name, u, page,
                   IF cleaned = <<>> THEN clean_authors(page.meta) ELSE cleaned)

\* _clean_article_data of the Publico and El Confidencial scrapers
CleanArticleData(article) ==
    LET cleaned == clean_authors(article.authors.l)
    IN  [article EXCEPT
            !.title = StrValue(BaseScraperCleanText(@)),
            !.summary = StrValue(BaseScraperCleanText(@)),
            !.section = StrValue(BaseScraperCleanText(@)),
            !.subsection = StrValue(BaseScraperCleanText(@)),
            !.text = StrValue(BaseScraperCleanText(@)),
            !.authors = ListValue(IF cleaned = <<>> THEN <<Redaccion>> ELSE cleaned)]

\* get_article_data of the Publico and El Confidencial scrapers
PublicoGetArticleData(name, u, page) ==
    IF page.fails THEN <<ExceptReturn(name, u, page.error)>>
    ELSE <<CleanArticleData(ScrapeArticleContent(name, u, page))>>

\* ElEspanolScraper.get_article_data
ElEspanolGetArticleData(name, u, page) ==
    IF page.fails THEN <<ExceptReturn(name, u, page.error)>>
    ELSE <<ScrapeArticleContent(name, u, page)>>

\* InfobaeScraper._clean_authors: the site names are not authors
InfobaeCleanAuthors(authors) ==
    IF authors = <<>> THEN <<>>
    ELSE LET cleaned == SelectSeq(authors, LAMBDA a : a # Redaccion)
         IN  IF cleaned = <<>> THEN << <<"Redaccion Infobae">> >> ELSE cleaned

\* the dictionary of the Infobae, Vozpopuli and Libertad Digital scrapers:
\* the body is stored under 'content' and there is no 'subsection'
NineKeyRecord(name, u, page, authors) ==
    [title |-> StrValue(page.title),
     url |-> StrValue(<<u>>),
     publish_date |-> IF page.dated THEN StrValue(PublishedIso) ELSE NoneValue,
     authors |-> ListValue(authors),
     source |-> StrValue(<<name>>),
     domain |-> StrValue(<<"domain">>),
     summary |-> StrValue(<<"Description">>),
     section |-> StrValue(<<"General">>),
     subsection |-> Absent,
     text |-> StrValue(<<"Body">>)]

\* InfobaeScraper.get_article_data: None on failure
InfobaeScraperGetArticleData(u, page) ==
    IF page.fails THEN <<>>
    ELSE <<NineKeyRecord("Infobae", u, page, InfobaeCleanAuthors(page.meta))>>

\* VozPopuliScraper._extract_authors
VozPopuliExtractAuthors(page) ==
    LET found == IF page.authors = <<>> THEN page.meta ELSE page.authors
        cleaned == SelectSeq(found, LAMBDA a : a # Redaccion)
    IN  IF cleaned = <<>> THEN << <<"Redaccion Vozpopuli">> >> ELSE cleaned

\* VozPopuliScraper.get_article_data: None on failure
VozPopuliGetArticleData(u, page) ==
    IF page.fails THEN <<>>
    ELSE <<NineKeyRecord("Vozpopuli", u, page, VozPopuliExtractAuthors(page))>>

\* LibertadDigitalScraper.get_article_data: the authors are the 'author'
\* meta tag or the empty list; None on failure
LibertadDigitalGetArticleData(u, page) ==
    IF page.fails THEN <<>>
    ELSE <<NineKeyRecord("Libertad Digital", u, page, page.meta)>>

\* the empty dictionary
EmptyDict == [k \in ArticleKeys |-> Absent]

\* OKDiarioScraper.get_article_data: seven keys, without 'domain',
\* 'summary' and 'subsection'; the empty dictionary on failure
OKDiarioGetArticleData(u, page) ==
    IF page.fails THEN <<EmptyDict>>
    ELSE <<[title |-> StrValue(page.title),
            url |-> StrValue(<<u>>),
            publish_date |-> StrValue(IF page.dated THEN PublishedIso ELSE <<>>),
            authors |-> ListValue(SelectSeq(page.meta \o page.authors,
                                            LAMBDA a : a = AnaRuiz)),
            source |-> StrValue(<<"OKDiario">>),
            domain |-> Absent,
            summary |-> Absent,
            section |-> StrValue(<<"seccion">>),
            subsection |-> Absent,
            text |-> StrValue(<<"Body">>)]>>

ScraperClasses ==
    {"BaseScraper", "PublicoScraper", "ElConfidencialScraper", "ElEspanolScraper",
     "InfobaeScraper", "VozPopuliScraper", "LibertadDigitalScraper",
     "OKDiarioScraper"}

\* get_article_data of a scraper class: the returned value is a sequence of
\* length 0 (None) or 1 (a dictionary)
ScraperGetArticleData(class, name, u, page) ==
    CASE class = "BaseScraper" -> BaseScraperGetArticleData(name, u, page)
      [] class \in {"PublicoScraper", "ElConfidencialScraper"} ->
            PublicoGetArticleData(name, u, page)
      [] class = "ElEspanolScraper" -> ElEspanolGetArticleData(name, u, page)
      [] class = "InfobaeScraper" -> InfobaeScraperGetArticleData(u, page)
      [] class = "VozPopuliScraper" -> VozPopuliGetArticleData(u, page)
      [] class = "LibertadDigitalScraper" -> LibertadDigitalGetArticleData(u, page)
      [] OTHER -> OKDiarioGetArticleData(u, page)

(***************************************************************************)
(* The fourteen registered sites, with what decides the records handed to  *)
(* the exporter and the output file.  chars: the characters of the 'name'  *)
(* key ("a'" stands for the letter a with an acute accent, "n~" for the    *)
(* letter n with a tilde).  records: the scraper class whose               *)
(* get_article_data builds the records of the scraper function,            *)
(* "get_articles" for the 20minutos wrapper, None when process_competitor  *)
(* always ends in the default processing (no scraper keys, a module that   *)
(* is not part of the package, or a scraper function that returns a        *)
(* scraper object instead of a list).  exporter: get_competitor_name() of  *)
(* the exporter class.  discovery: the source of the default processing.   *)
(***************************************************************************)
NoExporter == <<>>

RegisteredSites ==
    <<
       [name |-> "El Mundo",
        chars |-> <<"E", "l", " ", "M", "u", "n", "d", "o">>,
        records |-> None,
        exporter |-> <<"e", "l", "_", "m", "u", "n", "d", "o">>,
        discovery |-> "sitemap"],
       [name |-> "El Confidencial",
        chars |-> <<"E", "l", " ", "C", "o", "n", "f", "i", "d", "e", "n", "c", "i", "a", "l">>,
        records |-> "ElConfidencialScraper",
        exporter |-> <<"e", "l", "_", "c", "o", "n", "f", "i", "d", "e", "n", "c", "i", "a", "l">>,
        discovery |-> "rss"],
       [name |-> "Infobae",
        chars |-> <<"I", "n", "f", "o", "b", "a", "e">>,
        records |-> "InfobaeScraper",
        exporter |-> <<"i", "n", "f", "o", "b", "a", "e">>,
        discovery |-> "rss"],
       [name |-> "Libertad Digital",
        chars |-> <<"L", "i", "b", "e", "r", "t", "a", "d", " ", "D", "i", "g", "i", "t", "a", "l">>,
        records |-> "LibertadDigitalScraper",
        exporter |-> <<"l", "i", "b", "e", "r", "t", "a", "d", "_", "d", "i", "g", "i", "t", "a", "l">>,
        discovery |-> "rss"],
       [name |-> "Vozpopuli",
        chars |-> <<"V", "o", "z", "p", "o'", "p", "u", "l", "i">>,
        records |-> "VozPopuliScraper",
        exporter |-> <<"v", "o", "z", "_", "p", "o", "p", "u", "l", "i">>,
        discovery |-> "rss"],
       [name |-> "Publico",
        chars |-> <<"P", "u'", "b", "l", "i", "c", "o">>,
        records |-> "PublicoScraper",
        exporter |-> <<"p", "u", "b", "l", "i", "c", "o">>,
        discovery |-> "sitemap"],
       [name |-> "OKDiario",
        chars |-> <<"O", "K", "D", "i", "a", "r", "i", "o">>,
        records |-> None,
        exporter |-> <<"o", "k", "d", "i", "a", "r", "i", "o">>,
        discovery |-> "rss"],
       [name |-> "El Pais",
        chars |-> <<"E", "l", " ", "P", "a", "i'", "s">>,
        records |-> "ElPaisScraper",
        exporter |-> <<"e", "l", "_", "p", "a", "i", "s">>,
        discovery |-> "rss"],
       [name |-> "eldiario.es",
        chars |-> <<"e", "l", "d", "i", "a", "r", "i", "o", ".", "e", "s">>,
        records |-> None,
        exporter |-> <<"e", "l", "d", "i", "a", "r", "i", "o">>,
        discovery |-> "rss"],
       [name |-> "La Razon",
        chars |-> <<"L", "a", " ", "R", "a", "z", "o'", "n">>,
        records |-> None,
        exporter |-> <<"l", "a", "_", "r", "a", "z", "o", "n">>,
        discovery |-> "sitemap"],
       [name |-> "ABC",
        chars |-> <<"A", "B", "C">>,
        records |-> None,
        exporter |-> <<"a", "b", "c">>,
        discovery |-> "rss"],
       [name |-> "El Espanol",
        chars |-> <<"E", "l", " ", "E", "s", "p", "a", "n~", "o", "l">>,
        records |-> "ElEspanolScraper",
        exporter |-> <<"e", "l", "_", "e", "s", "p", "a", "n", "o", "l">>,
        discovery |-> "sitemap"],
       [name |-> "El Periodico",
        chars |-> <<"E", "l", " ", "P", "e", "r", "i", "o'", "d", "i", "c", "o">>,
        records |-> None,
        exporter |-> NoExporter,
        discovery |-> "sitemap"],
       [name |-> "20minutos",
        chars |-> <<"2", "0", "m", "i", "n", "u", "t", "o", "s">>,
        records |-> "get_articles",
        exporter |-> NoExporter,
        discovery |-> None] >>

RegisteredNames == {RegisteredSites[i].name : i \in 1..Len(RegisteredSites)}

SiteOf(n) ==
    RegisteredSites[CHOOSE i \in 1..Len(RegisteredSites) : RegisteredSites[i].name = n]

\* ElPaisScraper._process_rss_entry: the entry of an undated item is
\* skipped; the authors are joined, 'Unknown' when there is none
ElPaisProcessRssEntry(u, page) ==
    IF page.fails \/ ~page.dated THEN <<>>
    ELSE LET found == IF page.authors = <<>> THEN page.meta ELSE page.authors
             authors == SelectSeq(found, LAMBDA a : a # Redaccion)
         IN  <<[title |-> StrValue(OrText(page.title, <<"No title">>)),
                url |-> StrValue(<<u>>),
                publish_date |-> StrValue(PublishedIso),
                authors |-> StrValue(IF authors = <<>> THEN <<"Unknown">>
                                     ELSE JoinTexts(authors, <<";", " ">>)),
                source |-> StrValue(<<"El Pais">>),
                domain |-> StrValue(<<"domain">>),
                summary |-> StrValue(<<"Description">>),
                section |-> StrValue(<<"seccion">>),
                subsection |-> StrValue(<<>>),
                text |-> Absent]>>

\* extract_authors of scraper_20minutos_simple
VeinteMinutosExtractAuthors(page) ==
    LET found == SelectSeq(page.authors \o page.meta, LooksLikeName)
    IN  IF found = <<>> THEN << <<"20minutos">> >> ELSE found

\* get_articles of veinte_minutos_scraper: the dictionary handed on has the
\* keys url, title, date, section, authors, summary and text
VeinteMinutosGetArticles(u, page) ==
    IF page.fails THEN <<>>
    ELSE <<[title |-> StrValue(page.title),
            url |-> StrValue(<<u>>),
            publish_date |-> Absent,
            authors |-> ListValue(VeinteMinutosExtractAuthors(page)),
            source |-> Absent,
            domain |-> Absent,
            summary |-> StrValue(<<"Summary">>),
            section |-> StrValue(<<>>),
            subsection |-> Absent,
            text |-> StrValue(<<"Body">>)]>>

\* the dictionary of the default processing; for a site read from its
\* feeds the matching feed entry gives title, publish_date and summary
DefaultArticleData(c, u, page) ==
    LET basic == [title |-> StrValue(<<"Title From Url">>),
                  url |-> StrValue(<<u>>),
                  publish_date |-> StrValue(NowIso),
                  authors |-> StrValue(<<>>),
                  source |-> StrValue(<<c.name>>),
                  domain |-> StrValue(<<"domain">>),
                  summary |-> StrValue(<<>>),
                  section |-> StrValue(<<"Seccion">>),
                  subsection |-> StrValue(<<>>),
                  text |-> Absent]
    IN  IF c.discovery = "rss"
        THEN [basic EXCEPT !.title = StrValue(OrText(page.title, <<"No title">>)),
                           !.publish_date = StrValue(PublishedIso),
                           !.summary = StrValue(<<"Description">>)]
        ELSE basic

\* ElMundoExporter.enrich_article_data, for the fields a page gives here:
\* an empty title or authors value is filled from the article page when
\* the page has one, the authors joined
EnrichArticleData(article, page) ==
    LET found == IF page.fails THEN <<>> ELSE page.authors
        title == IF page.fails THEN <<>> ELSE page.title
    IN  [article EXCEPT
            !.title = IF ~Truthy(@) /\ title # <<>> THEN StrValue(title) ELSE @,
            !.authors = IF ~Truthy(@) /\ found # <<>>
                        THEN StrValue(JoinTexts(found, <<",", " ">>))
                        ELSE @]

\* the article as the exporter of the site passes it to the file writer
ExporterArticle(c, article, page) ==
    IF c.name = "El Mundo" THEN EnrichArticleData(article, page) ELSE article

\* a discovered URL with its page
Items == [url : URLs, page : PageSamples]

\* the dictionaries the scraper function of the site returns
ScraperFunctionArticles(c, items) ==
    Concat([i \in 1..Len(items) |->
        CASE c.records = "ElPaisScraper" ->
                ElPaisProcessRssEntry(items[i].url, items[i].page)
          [] c.records = "get_articles" ->
                VeinteMinutosGetArticles(items[i].url, items[i].page)
          [] OTHER ->
                ScraperGetArticleData(c.records, c.name, items[i].url, items[i].page)])

\* the dictionaries of the default processing: none without a feed or a
\* sitemap, and the entries of the generic feed reader are dated
DefaultProcessingArticles(c, items) ==
    IF c.discovery = None THEN <<>>
    ELSE Concat([i \in 1..Len(items) |->
            IF c.discovery = "rss" /\ ~items[i].page.dated THEN <<>>
            ELSE <<ExporterArticle(c, DefaultArticleData(c, items[i].url,
                                                         items[i].page),
                                   items[i].page)>>])

\* the article list process_competitor hands to the exporter (empty: no
\* export): the list of the scraper function, or the list of the default
\* processing when there is no scraper function or it raised; for El Mundo
\* the list is taken after the enrichment step of its exporter
ArticlesHanded(c, items, raised) ==
    IF c.records # None /\ ~raised
    THEN ScraperFunctionArticles(c, items)
    ELSE DefaultProcessingArticles(c, items)

(***************************************************************************)
(* SpecRecords: one call of get_article_data of a scraper class, or one    *)
(* run of process_competitor up to the export.                             *)
(***************************************************************************)
\* most URLs discovered for a site
MaxItems == 2

ItemLists == SeqUpTo(Items, MaxItems)

InitRecords ==
    /\ RecordsIdle
    /\ max_articles = 1
    /\ BatchIdle /\ SiteIdle /\ SitemapIdle /\ FeedIdle /\ ExportIdle /\ TextIdle /\ PathsIdle
    /\ IndexIdle /\ AutomationIdle /\ FailuresIdle

\* scraper.get_article_data(url)
CallGetArticleData ==
    /\ rcFunc = None
    /\ \E class \in ScraperClasses, item \in Items :
        /\ rcFunc' = "get_article_data"
        /\ rcArgs' = [who |-> class, items |-> <<item>>, raised |-> FALSE]
        /\ rcOut' = ScraperGetArticleData(class, "Site", item.url, item.page)
    /\ UNCHANGED <<batchVars, siteVars, smVars, fdVars, exVars, ctVars, pfVars,
                 ixVars, auVars, dfVars>>

\* process_competitor(competitor) up to the call of the exporter
ProcessCompetitorToExport ==
    /\ rcFunc = None
    /\ \E n \in RegisteredNames, items \in ItemLists, raised \in BOOLEAN :
        /\ rcFunc' = "process_competitor"
        /\ rcArgs' = [who |-> n, items |-> items, raised |-> raised]
        /\ rcOut' = ArticlesHanded(SiteOf(n), items, raised)
    /\ UNCHANGED <<batchVars, siteVars, smVars, fdVars, exVars, ctVars, pfVars,
                 ixVars, auVars, dfVars>>

NextRecords ==
    \/ CallGetArticleData
    \/ ProcessCompetitorToExport

SpecRecords == InitRecords /\ [][NextRecords]_vars

(***************************************************************************)
(* Properties of the article records (SpecRecords).                        *)
(***************************************************************************)
HasAllSchemaKeys(article) ==
    \A i \in 1..Len(fieldnames) : article[fieldnames[i]].t # "absent"

\* C15: every record process_competitor hands to an exporter carries all
\* nine schema keys, for every site and every path.
C15_HandedRecordsCarryAllNineKeys ==
    rcFunc = "process_competitor" =>
        \A i \in 1..Len(rcOut) : HasAllSchemaKeys(rcOut[i])

\* the record is the error stub of the URL u and of the exception message
IsErrorStub(article, u, error) ==
    /\ HasAllSchemaKeys(article)
    /\ article.url = StrValue(<<u>>)
    /\ article.section = StrValue(<<"error">>)
    /\ article.title = StrValue(<<"Error al extraer el articulo">>)
    /\ article.summary.t = "str" /\ error \in Range(article.summary.s)

\* C17: get_article_data never raises; when the extraction fails it returns
\* the stub of the URL: url as given, section "error", the extraction-failed
\* title, the exception message in the summary, every other key present.
C17_FailureReturnsTheStub ==
    (rcFunc = "get_article_data" /\ rcArgs.items[1].page.fails) =>
        /\ Len(rcOut) = 1
        /\ IsErrorStub(rcOut[1], rcArgs.items[1].url, rcArgs.items[1].page.error)

NonEmptyAuthors(article) ==
    LET v == article.authors
    IN  \/ v.t = "str" /\ v.s # <<>>
        \/ v.t = "list" /\ v.l # <<>> /\ \A i \in 1..Len(v.l) : v.l[i] # <<>>

\* C19: every record that reaches an exporter has a non-empty authors
\* value, on every path, the default processing included.
C19_HandedRecordsHaveAuthors ==
    rcFunc = "process_competitor" =>
        \A i \in 1..Len(rcOut) : NonEmptyAuthors(rcOut[i])

(***************************************************************************)
(* Export failures in a batch (Spec).                                      *)
(***************************************************************************)
\* the sites whose name is in the returned list
ReturnedSites == {results[i][1] : i \in 1..Len(results)}

\* C16: when the exporter of a site raises while writing the file,
\* process_competitor returns None for that site only: the site is never in
\* the returned list, and the finished batch has processed every other
\* selected site and returns the path of each one whose export succeeded.
C16_ExportFailureStaysWithItsSite ==
    /\ \A n \in SelectedSites :
          runLog[n] = "export_error" =>
              /\ futures[n].result = NoFile
              /\ n \notin ReturnedSites
    /\ pcDriver = "done" =>
          \A n \in SelectedSites :
              /\ runLog[n] # None
              /\ runLog[n] = "exported" =>
                    <<n, OutputPath(get_all_competitors[SiteIndex(n)])>> \in Range(results)

\* a finished batch of three sites: the export of the first one submitted
\* failed and the two others are returned with their paths
C16_Witness ==
    /\ pcDriver = "done"
    /\ Len(competitors) = 3
    /\ runLog[competitors[1].name] = "export_error"
    /\ runLog[competitors[2].name] = "exported"
    /\ runLog[competitors[3].name] = "exported"
    /\ ReturnedSites = {competitors[2].name, competitors[3].name}

(***************************************************************************)
(* Output file paths.  A name or a path is a sequence of characters.       *)
(***************************************************************************)
\* "".join(c if c.isalnum() else "_" for c in competitor.lower())
safe_name(name) ==
    [i \in 1..Len(name) |->
        IF IsAlnum(LowerChar(name[i])) THEN LowerChar(name[i]) ELSE "_"]

\* the part of the file name after the safe name: _articles_<YYYYMMDD>.csv
FileNameTail == <<"_articles_", "YYYYMMDD", ".csv">>

\* a path that does not depend on the site
FilePathWithoutSiteName(c) == <<"output/competitors", "/">> \o FileNameTail

\* the path of the file of the site for the day: a dedicated exporter writes
\* into output/competitors/<get_competitor_name()>, the default exporter
\* into output/competitors/<safe name>; the file name starts with the safe
\* name of the site in both
FilePath(c) ==
    LET directory == IF c.exporter # NoExporter THEN c.exporter
                     ELSE safe_name(c.chars)
    IN  <<"output/competitors", "/">> \o directory \o <<"/">>
            \o safe_name(c.chars) \o FileNameTail

(***************************************************************************)
(* SpecPaths: the registered sites write their files of the day, in any    *)
(* order.                                                                  *)
(***************************************************************************)
InitPaths ==
    /\ dayFiles = {}
    /\ max_articles = 1
    /\ BatchIdle /\ SiteIdle /\ SitemapIdle /\ FeedIdle /\ ExportIdle
    /\ RecordsIdle /\ TextIdle
    /\ IndexIdle /\ AutomationIdle /\ FailuresIdle

\* the exporter of site n writes its file
WriteSiteFile(n) ==
    /\ \A p \in dayFiles : p[1] # n
    /\ dayFiles' = dayFiles \cup {<<n, FilePath(SiteOf(n))>>}
    /\ UNCHANGED <<batchVars, siteVars, smVars, fdVars, exVars, rcVars, ctVars,
                 ixVars, auVars, dfVars>>

NextPaths == \E n \in RegisteredNames : WriteSiteFile(n)

SpecPaths == InitPaths /\ [][NextPaths]_vars

\* C18: no two registered sites write to the same file path on the same
\* day.
C18_DistinctSitesDistinctPaths ==
    \A p, q \in dayFiles : p[1] # q[1] => p[2] # q[2]

\* every registered site wrote its file, those with a dedicated exporter
\* and those with the default exporter
C18_Witness ==
    /\ {p[1] : p \in dayFiles} = RegisteredNames
    /\ \E p, q \in dayFiles :
          /\ SiteOf(p[1]).exporter # NoExporter
          /\ SiteOf(q[1]).exporter = NoExporter

(***************************************************************************)
(* parse_date of competitors/scrapers/el_mundo_scraper.py.  The argument   *)
(* and the result are timestamp texts; the result of isoformat() on a      *)
(* datetime without tzinfo is a text without offset.                       *)
(***************************************************************************)
\* datetime.strptime(date_str, '%Y-%m-%dT%H:%M:%SZ') succeeds: the text ends
\* with the letter Z
StrptimeZParses(ts) == ts.kind = "aware" /\ ts.offset = 0

\* parse_date(date_str) at the instant now, in the time zone of offset tz;
\* the ValueError of a text of another form and the TypeError of None are
\* caught, and datetime.now() is the local wall-clock reading
parse_date(ts, now, tz) ==
    IF StrptimeZParses(ts)
    THEN [kind |-> "naive", wall |-> ts.wall, offset |-> 0]
    ELSE [kind |-> "naive", wall |-> now + tz, offset |-> 0]

(***************************************************************************)
(* BaseScraper.extract_section_from_url.  A URL is written as the text     *)
(* that urlparse(url).path gives for it; the argument is a string or None. *)
(***************************************************************************)
ignore_parts ==
    {<<"w", "w", "w">>,
     <<"h", "t", "t", "p">>,
     <<"h", "t", "t", "p", "s">>,
     <<"c", "o", "m">>,
     <<"e", "s">>,
     <<"n", "o", "t", "i", "c", "i", "a", "s">>,
     <<"a", "c", "t", "u", "a", "l", "i", "d", "a", "d">>,
     <<"u", "l", "t", "i", "m", "a", "s", "-", "n", "o", "t", "i", "c", "i", "a", "s">>,
     <<"a", "r", "t", "i", "c", "u", "l", "o">>,
     <<"n", "o", "t", "i", "c", "i", "a">>}

\* str.isdigit()
IsDigit(text) == text # <<>> /\ \A i \in 1..Len(text) : text[i] \in Digits

\* str.upper() on one character
UpperChar(ch) ==
    IF \E i \in 1..Len(LowerLetters) : LowerLetters[i] = ch
    THEN UpperLetters[CHOOSE i \in 1..Len(LowerLetters) : LowerLetters[i] = ch]
    ELSE ch

\* str.title(): a letter is upper case after a character that is not a
\* letter and lower case after a letter
Title(text) ==
    [i \in 1..Len(text) |->
        IF i = 1 \/ ~(text[i - 1] \in Range(UpperLetters) \cup Range(LowerLetters))
        THEN UpperChar(text[i]) ELSE LowerChar(text[i])]

\* name.replace('-', ' ').title().strip()
CleanSectionName(name) ==
    Strip(Title([i \in 1..Len(name) |-> IF name[i] = "-" THEN " " ELSE name[i]]))

\* [p for p in parsed.path.split('/') if p.strip()]
PathParts(path) ==
    SelectSeq(SplitFrom(path, {"/"}, <<>>), LAMBDA p : Strip(p) # <<>>)

\* the test of the list relevant_parts
IsRelevantPart(p) ==
    /\ p \notin ignore_parts
    /\ ~IsDigit(SelectSeq(p, LAMBDA ch : ch # "-"))
    /\ Len(p) > 2

general == <<"g", "e", "n", "e", "r", "a", "l">>

\* extract_section_from_url(url): the pair (section, subsection); urlparse
\* raises on a value that is not a string and the except branch answers
extract_section_from_url(url) ==
    IF url.t # "str" THEN <<general, <<>>>>
    ELSE LET relevant_parts == SelectSeq(PathParts(url.s), IsRelevantPart)
             section == IF Len(relevant_parts) > 0 THEN relevant_parts[1]
                        ELSE general
             subsection == IF Len(relevant_parts) > 1 THEN relevant_parts[2]
                           ELSE <<>>
         IN  <<CleanSectionName(section), CleanSectionName(subsection)>>

(***************************************************************************)
(* get_competitor_by_name over the fourteen registered sites, on the       *)
(* characters of the names.  The optional configuration is a sequence of   *)
(* length 0 (None) or 1.                                                   *)
(***************************************************************************)
\* a lookup that compares the names as written
CompetitorByNameAsWritten(name) ==
    LET hits == {i \in 1..Len(RegisteredSites) : RegisteredSites[i].chars = name}
    IN  IF hits = {} THEN <<>>
        ELSE <<RegisteredSites[CHOOSE i \in hits : \A j \in hits : i <= j]>>

\* the first configuration with competitor['name'].lower() == name.lower()
CompetitorByName(name) ==
    LET hits == {i \in 1..Len(RegisteredSites) :
                    LowerText(RegisteredSites[i].chars) = LowerText(name)}
    IN  IF hits = {} THEN <<>>
        ELSE <<RegisteredSites[CHOOSE i \in hits : \A j \in hits : i <= j]>>

(***************************************************************************)
(* Discovery over sources that fail.  A source (a feed or a sitemap) is    *)
(* [fetch, entries]: fetch is "ok" or "error" (the request or the parse    *)
(* of the document raises), an entry is [url, raises] and raises tells     *)
(* that handling the entry raises an exception.  Every entry is of today.  *)
(* The outcome of a piece of code is [raised, value]: it raised an         *)
(* exception, or it returned value.                                        *)
(***************************************************************************)
Raised == [raised |-> TRUE, value |-> <<>>]

Returned(v) == [raised |-> FALSE, value |-> v]

\* try: <body>  except Exception: return []
OrEmpty(outcome) == IF outcome.raised THEN Returned(<<>>) ELSE outcome

\* for item in items: result.extend(f(item)), the call of f not in a try
ExtendEach(outcomes) ==
    IF \E i \in 1..Len(outcomes) : outcomes[i].raised THEN Raised
    ELSE Returned(Concat([i \in 1..Len(outcomes) |-> outcomes[i].value]))

\* the loop that lets the exception of an item through
ExtendWithoutTry(outcomes) ==
    IF \E i \in 1..Len(outcomes) : outcomes[i].raised THEN Raised
    ELSE Returned(Concat([i \in 1..Len(outcomes) |-> outcomes[i].value]))

\* for item in items: try: <body appending to the result>
\*                     except Exception: <log> (continue)
ExtendIgnoringFailures(outcomes) ==
    Returned(Concat([i \in 1..Len(outcomes) |->
                      IF outcomes[i].raised THEN <<>> ELSE outcomes[i].value]))

\* requests.get(url); response.raise_for_status(); parsing of the document
FetchSource(src) == IF src.fetch = "ok" THEN Returned(src.entries) ELSE Raised

\* the <url> element of a sitemap for the entry e
SitemapEntryOf(e) ==
    [loc |-> e.url, ts |-> [kind |-> "aware", wall |-> Today, offset |-> 0]]

\* the feed entry for the entry e
FeedEntryOf(e) ==
    [link |-> [path |-> e.url, query |-> ""], date |-> [kind |-> "ok", at |-> Today]]

\* the body of the try of the loop over urls[:200] in get_recent_article_urls
SitemapEntryOutcome(e, now, tz, days) ==
    IF e.raises THEN Raised
    ELSE IF GenericKeeps(SitemapEntryOf(e), now, tz, days) THEN Returned(<<e.url>>)
    ELSE Returned(<<>>)

\* CompetitorExporter.get_recent_article_urls with its exception handlers
GetRecentArticleUrlsOutcome(src, now, tz, days) ==
    LET fetched == FetchSource(src)
        urls == Take(fetched.value, MaxSitemapUrls)
    IN  OrEmpty(IF fetched.raised THEN Raised
                ELSE ExtendIgnoringFailures(
                        [i \in 1..Len(urls) |-> SitemapEntryOutcome(urls[i], now, tz, days)]))

\* the loop over sitemap_list in process_competitor
SitemapBranchOutcome(sources, now, tz, days) ==
    ExtendIgnoringFailures(
        [k \in 1..Len(sources) |-> GetRecentArticleUrlsOutcome(sources[k], now, tz, days)])

\* the body of the try of the loop over feed.entries in get_rss_entries
FeedEntryOutcome(e, now, days) ==
    IF e.raises THEN Raised
    ELSE IF GenericFeedKeeps(FeedEntryOf(e), now, days)
         THEN Returned(<<[url |-> FeedEntryOf(e).link, publish_date |-> Today]>>)
    ELSE Returned(<<>>)

\* CompetitorExporter.get_rss_entries with its exception handlers
GetRssEntriesOutcome(src, now, days) ==
    LET fetched == FetchSource(src)
    IN  OrEmpty(IF fetched.raised THEN Raised
                ELSE ExtendIgnoringFailures(
                        [i \in 1..Len(fetched.value) |->
                            FeedEntryOutcome(fetched.value[i], now, days)]))

\* the loop over competitor['rss_feeds'] in process_competitor
RssBranchOutcome(sources, now, days) ==
    ExtendEach([k \in 1..Len(sources) |-> GetRssEntriesOutcome(sources[k], now, days)])

\* ElPaisScraper._process_rss_entry with its exception handler: <<>> is None
ProcessRssEntryOutcome(e, now, days) ==
    OrEmpty(IF e.raises THEN Raised ELSE Returned(ProcessRssEntry(FeedEntryOf(e), now, days)))

\* the body of the try of the loop over feed.entries[:max_articles] in
\* ElPaisScraper._fetch_single_feed
ElPaisEntryOutcome(e, now, days) ==
    LET article_data == ProcessRssEntryOutcome(e, now, days)
    IN  IF article_data.raised THEN Raised
        ELSE Returned(SelectSeq(article_data.value,
                              LAMBDA a : a.publish_date >= now - days * HoursPerDay))

\* ElPaisScraper._fetch_single_feed with its exception handlers
FetchSingleFeedOutcome(src, now, days, maxPerFeed) ==
    LET fetched == FetchSource(src)
        entries == Take(fetched.value, maxPerFeed)
    IN  OrEmpty(IF fetched.raised THEN Raised
                ELSE ExtendIgnoringFailures(
                        [i \in 1..Len(entries) |-> ElPaisEntryOutcome(entries[i], now, days)]))

\* ElPaisScraper.fetch_rss_entries: the loop over self.rss_feeds, its body
\* in a try
FetchRssEntriesOutcome(sources, now, days) ==
    LET feeds == [k \in 1..Len(sources) |->
                    FetchSingleFeedOutcome(sources[k], now, days, ElPaisMaxArticlesPerFeed)]
    IN  Returned(UnionNew(<<>>, [k \in 1..Len(sources) |->
                                  IF feeds[k].raised THEN <<>> ELSE feeds[k].value]))

(***************************************************************************)
(* SpecFailures: one discovery call over sources of which some fail.       *)
(***************************************************************************)
\* largest number of sources of a site
MaxFailSources == 2
\* largest number of entries of a source
MaxFailEntries == 2

\* the URL of the entry i of the source k
UrlAt(k, i) == "s" \o ToString(k) \o "e" \o ToString(i)

\* what the sources look like: for each source its fetch and, per entry,
\* whether handling it raises
SourceShapes ==
    SeqUpTo([fetch : {"ok"}, raises : SeqUpTo(BOOLEAN, MaxFailEntries)]
                \cup {[fetch |-> "error", raises |-> <<>>]},
            MaxFailSources) \ {<<>>}

SourcesOf(shape) ==
    [k \in 1..Len(shape) |->
        [fetch |-> shape[k].fetch,
         entries |-> [i \in 1..Len(shape[k].raises) |->
                        [url |-> UrlAt(k, i), raises |-> shape[k].raises[i]]]]]

InitFailures ==
    /\ \E shape \in SourceShapes : dfSources = SourcesOf(shape)
    /\ dfFunc = None
    /\ dfOut = None
    /\ max_articles = 1
    /\ BatchIdle /\ SiteIdle /\ SitemapIdle /\ FeedIdle /\ ExportIdle
    /\ RecordsIdle /\ TextIdle /\ PathsIdle /\ IndexIdle /\ AutomationIdle

\* the sitemap branch of process_competitor over the configured sitemaps
RunSitemapBranch ==
    /\ dfFunc = None
    /\ dfFunc' = "sitemap_branch"
    /\ dfOut' = SitemapBranchOutcome(dfSources, Today + 1, 0, 1)
    /\ UNCHANGED <<dfSources, batchVars, siteVars, smVars, fdVars, exVars, rcVars,
                   ctVars, pfVars, ixVars, auVars>>

\* the RSS branch of process_competitor over the configured feeds
RunRssBranchWithFailures ==
    /\ dfFunc = None
    /\ dfFunc' = "rss_branch"
    /\ dfOut' = RssBranchOutcome(dfSources, Today + 1, 1)
    /\ UNCHANGED <<dfSources, batchVars, siteVars, smVars, fdVars, exVars, rcVars,
                   ctVars, pfVars, ixVars, auVars>>

\* ElPaisScraper.fetch_rss_entries(days_back)
RunFetchRssEntriesWithFailures ==
    /\ dfFunc = None
    /\ dfFunc' = "el_pais"
    /\ dfOut' = FetchRssEntriesOutcome(dfSources, Today + 1, 1)
    /\ UNCHANGED <<dfSources, batchVars, siteVars, smVars, fdVars, exVars, rcVars,
                   ctVars, pfVars, ixVars, auVars>>

NextFailures ==
    \/ RunSitemapBranch
    \/ RunRssBranchWithFailures
    \/ RunFetchRssEntriesWithFailures

SpecFailures == InitFailures /\ [][NextFailures]_vars

(***************************************************************************)
(* Properties of discovery over failing sources (SpecFailures).            *)
(***************************************************************************)
\* the URLs of the returned list
ReturnedUrls ==
    [i \in 1..Len(dfOut.value) |->
        IF dfFunc = "sitemap_branch" THEN dfOut.value[i] ELSE dfOut.value[i].url.path]

\* the URLs of the entries that did not fail, of the sources that did not
\* fail, in order
HealthyUrls ==
    Concat([k \in 1..Len(dfSources) |->
        LET ok == SelectSeq(dfSources[k].entries, LAMBDA e : ~e.raises)
        IN  IF dfSources[k].fetch = "ok" THEN [i \in 1..Len(ok) |-> ok[i].url] ELSE <<>>])

ImportAttempts == 3

\* the positional parameters of main of export_competitors: 'def main():'
MainParameters == 0

\* the args of run_scraping: argparse.Namespace(...)
ScrapingArgs ==
    [competitors |-> None, days_back |-> 1, max_articles |-> 100, debug |-> TRUE]

\* how the call export_competitors(*positional) ends in the environment env
CallMain(positional, env) ==
    IF Len(positional) # MainParameters THEN "TypeError"
    ELSE IF env.exportRaises THEN "Exception"
    ELSE "returned"

\* the steps of main after run_scraping returned success
StepsAfterScraping(success, env) ==
    IF ~success THEN <<>>
    ELSE <<"cleanup_old_files", "get_today_files">>
         \o (IF env.todayFiles > 0 /\ env.drive
             THEN <<"create_archive">>
                  \o (IF env.credentials THEN <<"upload_file">> ELSE <<>>)
             ELSE <<>>)

(***************************************************************************)
(* SpecAutomation: one run of main of the automation script.  auPc.at is   *)
(* "import" before the import attempt number auPc.attempt of run_scraping, *)
(* "call" before the call of the entry point, "scraped" when run_scraping  *)
(* has returned and "done" at the end of main.                             *)
(***************************************************************************)
At(at, attempt) == [at |-> at, attempt |-> attempt]

AutomationEnvs ==
    [imports : [1..ImportAttempts -> {"ok", "no_main", "fails"}],
     exportRaises : BOOLEAN, todayFiles : {0, 1}, drive : BOOLEAN,
     credentials : BOOLEAN]

InitAutomation ==
    /\ auEnv \in AutomationEnvs
    /\ auPc = At("import", 1)
    /\ auEntry = None
    /\ auCalls = <<>>
    /\ auSuccess = FALSE
    /\ auSteps = <<>>
    /\ max_articles = 1
    /\ BatchIdle /\ SiteIdle /\ SitemapIdle /\ FeedIdle /\ ExportIdle
    /\ RecordsIdle /\ TextIdle /\ PathsIdle /\ IndexIdle /\ FailuresIdle

\* one iteration of the loop over import_attempts in run_scraping; after the
\* last one without entry point ImportError is raised and the handler of
\* run_scraping returns False
TryImport(k) ==
    /\ auPc = At("import", k)
    /\ IF auEnv.imports[k] = "ok"
       THEN auEntry' = "main" /\ auPc' = At("call", k)
       ELSE IF k < ImportAttempts
       THEN auEntry' = auEntry /\ auPc' = At("import", k + 1)
       ELSE auEntry' = auEntry /\ auPc' = At("scraped", k)
    /\ UNCHANGED <<auEnv, auCalls, auSuccess, auSteps, batchVars, siteVars, smVars, fdVars,
                   exVars, rcVars, ctVars, pfVars, ixVars, dfVars>>

\* export_competitors(args) in run_scraping and the return of run_scraping:
\* True after the call returned, False from the exception handler
CallExportCompetitors ==
    /\ auPc.at = "call"
    /\ LET outcome == CallMain(<<ScrapingArgs>>, auEnv)
       IN  /\ auCalls' = Append(auCalls, [args |-> <<ScrapingArgs>>, outcome |-> outcome])
           /\ auSuccess' = (outcome = "returned")
    /\ auPc' = At("scraped", auPc.attempt)
    /\ UNCHANGED <<auEnv, auEntry, auSteps, batchVars, siteVars, smVars, fdVars,
                   exVars, rcVars, ctVars, pfVars, ixVars, dfVars>>

\* main after 'success = run_scraping()'
MainAfterScraping ==
    /\ auPc.at = "scraped"
    /\ auSteps' = StepsAfterScraping(auSuccess, auEnv)
    /\ auPc' = At("done", auPc.attempt)
    /\ UNCHANGED <<auEnv, auEntry, auCalls, auSuccess, batchVars, siteVars, smVars,
                   fdVars, exVars, rcVars, ctVars, pfVars, ixVars, dfVars>>

NextAutomation ==
    \/ \E k \in 1..ImportAttempts : TryImport(k)
    \/ CallExportCompetitors
    \/ MainAfterScraping

SpecAutomation == InitAutomation /\ [][NextAutomation]_vars

(***************************************************************************)
(* Properties of the automation run (SpecAutomation).                      *)
(***************************************************************************)
\* C30: when the export module was imported, run_scraping calls its entry
\* point with days_back = 1 and max_articles = 100 for all sites and, once
\* the export has completed, returns True, so that main goes on with the
\* cleanup of old files and the listing of the files of today; main executes
\* these steps only after run_scraping returned True.
C30_ScrapingSucceedsAndStepsFollow ==
    /\ \A i \in 1..Len(auCalls) :
          auCalls[i].args = <<ScrapingArgs>>
    /\ auSteps # <<>> => auSuccess = TRUE
    /\ (auPc.at = "done" /\ auEntry # None /\ ~auEnv.exportRaises) =>
          /\ auSuccess = TRUE
          /\ auCalls # <<>>
          /\ SubSeq(auSteps, 1, 2) = <<"cleanup_old_files", "get_today_files">>

(***************************************************************************)
(* SpecFunctions: one call of one of the helper functions, with an         *)
(* argument drawn from the inputs below.  rcFunc is the function called,   *)
(* rcArgs its argument and rcOut what it returns.                          *)
(***************************************************************************)
\* most authors in the list given to clean_authors
MaxAuthors == 2
\* most words of a generated name
MaxNameWords == 5

Por == <<"P", "o", "r", " ">>

NameWords == {<<"J", "u", "a", "n">>, <<"G", "a", "r", "c", "i'", "a">>}

\* the names of one to MaxNameWords capitalized words
CapitalizedNames ==
    {JoinTexts(ws, <<" ">>) : ws \in SeqUpTo(NameWords, MaxNameWords) \ {<<>>}}

AuthorSamples ==
    {Por \o JuanGarcia, JuanGarcia, Redaccion, ReadingTime,
      <<"j", "u", "a", "n", " ", "g", "a", "r", "c", "i'", "a">>, <<" ", "J", "u", "a", "n", " ", " ", "G", "a", "r", "c", "i'", "a", " ", "J", ".">>}

\* the lists given to clean_authors: lists of samples, and one generated
\* name with or without the prefix "Por "
AuthorLists ==
    {ListValue(lst) : lst \in SeqUpTo(AuthorSamples, MaxAuthors)}
    \cup {ListValue(<<name>>) : name \in CapitalizedNames}
    \cup {ListValue(<<Por \o name>>) : name \in CapitalizedNames}
    \cup {StrValue(name) : name \in AuthorSamples}

\* most segments of the path of a URL
MaxSegments == 3

PathSegments ==
    {<<"p", "o", "l", "i", "t", "i", "c", "a">>,
     <<"2", "0", "2", "5">>,
     <<"0", "6", "-", "2", "6">>,
     <<"n", "o", "t", "i", "c", "i", "a", "s">>,
     <<"a", "b">>,
     <<"-", "-", "-">>,
     <<"e", "l", "-", "p", "a", "i", "s">>}

\* the URLs given to extract_section_from_url: the paths of up to
\* MaxSegments segments, and None
SectionUrls ==
    {StrValue(<<"/">> \o JoinTexts(parts, <<"/">>)) :
        parts \in SeqUpTo(PathSegments, MaxSegments)}
    \cup {NoneValue}

\* the names looked up: every registered name as written, in lower case and
\* in upper case, and names that are not registered
LookupNames ==
    UNION {{RegisteredSites[i].chars, LowerText(RegisteredSites[i].chars),
            [k \in 1..Len(RegisteredSites[i].chars) |->
                UpperChar(RegisteredSites[i].chars[k])]} :
           i \in 1..Len(RegisteredSites)}
    \cup {<<"M", "a", "r", "c", "a">>, <<"E", "l", " ", "M", "u", "n", "d", "o", " ">>, <<"E", "l", "M", "u", "n", "d", "o">>, <<"E", "l", " ", "P", "a", "i", "s">>, <<>>}

InitFunctions ==
    /\ RecordsIdle
    /\ max_articles = 1
    /\ BatchIdle /\ SiteIdle /\ SitemapIdle /\ FeedIdle /\ ExportIdle /\ TextIdle /\ PathsIdle
    /\ IndexIdle /\ AutomationIdle /\ FailuresIdle

\* scraper.clean_authors(authors): a single string is taken as a list of one
CallCleanAuthors ==
    /\ rcFunc = None
    /\ \E authors \in AuthorLists :
        /\ rcFunc' = "clean_authors"
        /\ rcArgs' = authors
        /\ rcOut' = clean_authors(IF authors.t = "str" THEN <<authors.s>>
                                  ELSE authors.l)
    /\ UNCHANGED <<batchVars, siteVars, smVars, fdVars, exVars, ctVars, pfVars,
                 ixVars, auVars, dfVars>>

\* parse_date(date_str)
CallParseDate ==
    /\ rcFunc = None
    /\ \E ts \in TsValues, now \in NowValues, tz \in TzValues :
        /\ rcFunc' = "parse_date"
        /\ rcArgs' = [date_str |-> ts, now |-> now, tz |-> tz]
        /\ rcOut' = parse_date(ts, now, tz)
    /\ UNCHANGED <<batchVars, siteVars, smVars, fdVars, exVars, ctVars, pfVars,
                 ixVars, auVars, dfVars>>

\* scraper.extract_section_from_url(url)
CallExtractSectionFromUrl ==
    /\ rcFunc = None
    /\ \E url \in SectionUrls :
        /\ rcFunc' = "extract_section_from_url"
        /\ rcArgs' = url
        /\ rcOut' = extract_section_from_url(url)
    /\ UNCHANGED <<batchVars, siteVars, smVars, fdVars, exVars, ctVars, pfVars,
                 ixVars, auVars, dfVars>>

\* competitors.get_competitor_by_name(name)
CallGetCompetitorByName ==
    /\ rcFunc = None
    /\ \E name \in LookupNames :
        /\ rcFunc' = "get_competitor_by_name"
        /\ rcArgs' = name
        /\ rcOut' = CompetitorByName(name)
    /\ UNCHANGED <<batchVars, siteVars, smVars, fdVars, exVars, ctVars, pfVars,
                 ixVars, auVars, dfVars>>

NextFunctions ==
    \/ CallCleanAuthors
    \/ CallGetCompetitorByName
    \/ CallExtractSectionFromUrl
    \/ CallParseDate

SpecFunctions == InitFunctions /\ [][NextFunctions]_vars

(***************************************************************************)
(* Properties of the helper functions (SpecFunctions).                     *)
(***************************************************************************)
\* C21: clean_authors returns ["Juan Garcia"] for ["Por Juan Garcia",
\* "Redaccion", "3 min de lectura"], and a single candidate made of "Por "
\* and a name of two to four capitalized words yields that name.
C21_CleanAuthorsExtractsTheName ==
    rcFunc = "clean_authors" =>
        /\ rcArgs = ListValue(<<Por \o JuanGarcia, Redaccion, ReadingTime>>)
              => rcOut = <<JuanGarcia>>
        /\ \A ws \in SeqUpTo(NameWords, 4) :
              Len(ws) >= 2 /\ rcArgs = ListValue(<<Por \o JoinTexts(ws, <<" ">>)>>)
                  => rcOut = <<JoinTexts(ws, <<" ">>)>>

\* C22: for a text of the form YYYY-MM-DDTHH:MM:SSZ parse_date returns a
\* timezone-aware timestamp of the same UTC instant, and for every other
\* input it returns the current time.
C22_ParseDateKeepsTheUtcInstant ==
    rcFunc = "parse_date" =>
        IF StrptimeZParses(rcArgs.date_str)
        THEN /\ rcOut.kind = "aware"
             /\ Instant(rcOut) = Instant(rcArgs.date_str)
        ELSE rcOut.wall - rcOut.offset \in {rcArgs.now, rcArgs.now + rcArgs.tz}

\* the segments the section is taken from: not in the stoplist, not purely
\* numeric or a date, at least three characters long
RemainingSegments(url) ==
    SelectSeq(SplitFrom(url.s, {"/"}, <<>>),
              LAMBDA p : /\ p \notin ignore_parts
                         /\ \E i \in 1..Len(p) : p[i] \notin Digits \cup {"-"}
                         /\ Len(p) >= 3)

\* C23: extract_section_from_url returns the first two remaining segments,
\* title-cased with hyphens turned to spaces, or exactly ("general", "") when
\* none remains; the section is never empty and never purely numeric.
C23_SectionIsFirstRemainingSegmentOrGeneral ==
    rcFunc = "extract_section_from_url" /\ rcArgs.t = "str" =>
        LET remaining == RemainingSegments(rcArgs)
        IN  /\ rcOut = IF remaining = <<>> THEN <<general, <<>>>>
                       ELSE <<CleanSectionName(remaining[1]),
                              IF Len(remaining) > 1
                              THEN CleanSectionName(remaining[2]) ELSE <<>> >>
            /\ rcOut[1] # <<>>
            /\ ~IsDigit(rcOut[1])

\* C24: looking up the name of a registered configuration, in any letter
\* case, returns that configuration and no other; a name that is not
\* registered gives None.
C24_LookupByNameFindsTheSite ==
    rcFunc = "get_competitor_by_name" =>
        /\ \A i \in 1..Len(RegisteredSites) :
              LowerText(rcArgs) = LowerText(RegisteredSites[i].chars)
                  => rcOut = <<RegisteredSites[i]>>
        /\ (\A i \in 1..Len(RegisteredSites) :
               LowerText(rcArgs) # LowerText(RegisteredSites[i].chars))
              => rcOut = <<>>

\* the name of El Pais, written in upper case, is found
C24_Witness ==
    /\ rcFunc = "get_competitor_by_name"
    /\ rcArgs = <<"E", "L", " ", "P", "A", "I'", "S">>
    /\ rcOut # <<>>
    /\ rcOut[1].name = "El Pais"

====
